---- MODULE Spec2Model ----
(***************************************************************************)
(* A model of the OpenFGA client of this repository                        *)
(* (src/client/fga_client.py, src/client/sync_fga_database.py):            *)
(* the helpers dedupe and batcherize, the pagination loop _paginate, the   *)
(* batched tuple writer (write_tuples / delete_tuples), the identity       *)
(* resolution of FGAClient, and the reconciliation pass of                 *)
(* sync_fga_database.main.                                                  *)
(*                                                                         *)
(* Python values are encoded as follows.                                   *)
(*   - an optional value is a sequence of length <= 1: None is <<>>, and   *)
(*     a present value x is <<x>>;                                         *)
(*   - a list is a sequence;                                               *)
(*   - a tuple-key dict is a record [order, val]: val maps the field names *)
(*     to their values and order is the insertion order of the fields      *)
(*     (Python dicts keep it, and tuple(d.items()) exposes it);            *)
(*   - a string that the client only tests for emptiness (a continuation   *)
(*     token, an identifier) is a natural number, 0 being the empty        *)
(*     string.                                                             *)
(***************************************************************************)
EXTENDS Integers, Sequences, FiniteSets, TLC

VARIABLES
    \* dedupe / batcherize applied to drawn inputs
    lst, n, deduped_list, chunks,
    \* the operation in progress: its place, the locals of _paginate, the
    \* locals of write_tuples / delete_tuples, its outcome (None while it runs)
    pc, pg, wr, ret,
    \* history: the arguments of the operation in progress with the server's
    \* tuples when it started, the requests it issued and the responses it
    \* received, in order
    call, log, served,
    \* the FGAClient instance (self.store_id, self.model_id) and the module
    \* globals _store_id, _model_id
    self, globals,
    \* the remote service: its stores, authorization models and tuples
    server

pureVars == <<lst, n, deduped_list, chunks>>

callVars == <<pc, pg, wr, ret, call, log, served>>

envVars == <<self, globals, server>>

vars == <<lst, n, deduped_list, chunks, pc, pg, wr, ret, call, log, served,
          self, globals, server>>

(***************************************************************************)
(* Bounds of the model.                                                    *)
(***************************************************************************)
\* longest list drawn as an input of dedupe and batcherize
MaxLen == 3
\* largest chunk size drawn as an input of batcherize
MaxN == 3
\* most pages the mock server serves to one paginated call
MaxPages == 3

(***************************************************************************)
(* Python values.                                                          *)
(***************************************************************************)
None == <<>>

Some(x) == <<x>>

\* Python truthiness of an optional string: None and "" are falsy
Truthy(x) == x # None /\ x[1] # 0

\* Python truthiness of an optional field name
TruthyStr(x) == x # None /\ x[1] # ""

\* `a or b` on optional strings
Or(a, b) == IF Truthy(a) THEN a ELSE b

Min(a, b) == IF a <= b THEN a ELSE b

Range(s) == {s[i] : i \in 1..Len(s)}

RECURSIVE Concat(_)
\* the concatenation of a sequence of sequences
Concat(ss) == IF ss = <<>> THEN <<>> ELSE Head(ss) \o Concat(Tail(ss))

\* range(start, stop, step) for step >= 1
RECURSIVE range(_, _, _)
range(start, stop, step) ==
    IF start >= stop THEN <<>>
    ELSE <<start>> \o range(start + step, stop, step)

\* lst[i : j] for 0 <= i <= j
Slice(s, i, j) == SubSeq(s, i + 1, Min(j, Len(s)))

(***************************************************************************)
(* Tuple keys.                                                             *)
(***************************************************************************)
FieldOrders ==
    { <<"user", "relation", "object">>, <<"relation", "user", "object">> }

CanonicalOrder == <<"user", "relation", "object">>

\* the dict {"user": u, "relation": r, "object": o}, its fields inserted in
\* the order ord
TupleKey(u, r, o, ord) ==
    [order |-> ord, val |-> [user |-> u, relation |-> r, object |-> o]]

\* item.items(): the (field, value) pairs in insertion order
items(item) ==
    [i \in 1..Len(item.order) |-> <<item.order[i], item.val[item.order[i]]>>]

\* Python's == on dicts: the same fields with the same values, in any order
DictEq(a, b) == a.val = b.val

(***************************************************************************)
(* dedupe and batcherize.                                                  *)
(***************************************************************************)
\* the identifier under which dedupe remembers an item
identifier(item) == items(item)

\* one iteration of the loop of dedupe on the locals st = [seen,
\* deduped_list]
dedupeStep(st, item) ==
    IF identifier(item) \notin st.seen
    THEN [seen |-> st.seen \cup {identifier(item)},
          deduped_list |-> Append(st.deduped_list, item)]
    ELSE st

\* The loop of dedupe over l[lo..hi], in order, from the locals st.  The
\* range is halved, and the first half evaluated before the second is
\* entered, only to keep the evaluation shallow on long lists.
RECURSIVE dedupeLoop(_, _, _, _)
dedupeLoop(l, lo, hi, st) ==
    IF lo > hi THEN st
    ELSE IF lo = hi THEN dedupeStep(st, l[lo])
    ELSE LET mid == (lo + hi) \div 2
             st1 == dedupeLoop(l, lo, mid, st)
         IN  IF Len(st1.deduped_list) >= 0
             THEN dedupeLoop(l, mid + 1, hi, st1) ELSE st1

dedupe(l) ==
    dedupeLoop(l, 1, Len(l), [seen |-> {}, deduped_list |-> <<>>]).deduped_list

\* batcherize with the slice lst[i : i + n - 1], one element short
batcherize_short(l, k) ==
    LET starts == range(0, Len(l), k)
    IN  [c \in 1..Len(starts) |-> Slice(l, starts[c], starts[c] + k - 1)]

batcherize(l, k) ==
    LET starts == range(0, Len(l), k)
    IN  [c \in 1..Len(starts) |-> Slice(l, starts[c], starts[c] + k)]

(***************************************************************************)
(* JSON values and HTTP responses.                                         *)
(*                                                                         *)
(* A request dict (params, body) is a function from field names to values; *)
(* the empty dict is <<>>.  A decoded response body is                     *)
(*   [kind |-> "dict", order, val]  a JSON object, its fields in order, or *)
(*   [kind |-> "list", elems]       a JSON array.                          *)
(* A response is [status_code, is_json, data]: is_json says whether        *)
(* response.json() can decode the body.                                    *)
(***************************************************************************)
EmptyDict == <<>>

\* d[k] = v
DictSet(d, k, v) == [x \in DOMAIN d \cup {k} |-> IF x = k THEN v ELSE d[x]]

JsonDict(ord, v) == [kind |-> "dict", order |-> ord, val |-> v]

JsonList(es) == [kind |-> "list", elems |-> es]

\* data.get(k) on a JSON object
Get(data, k) == IF k \in DOMAIN data.val THEN Some(data.val[k]) ELSE None

\* method.upper()
Upper(m) ==
    CASE m = "get" -> "GET"
      [] m = "post" -> "POST"
      [] OTHER -> m

\* httpx Response.is_success
IsSuccess(status_code) == status_code \in 200..299

Raise(exc) == [kind |-> "raise", exc |-> exc]

Return(value) == [kind |-> "return", value |-> value]

\* _raise_for_status with is_success narrowed to "not a server error"
raise_for_status_5xx_only(response) ==
    IF response.status_code < 500 THEN None
    ELSE Some([type |-> "RuntimeError",
               status_code |-> response.status_code,
               body |-> response.data])

\* _raise_for_status(response): the exception it raises, or None
raise_for_status(response) ==
    IF IsSuccess(response.status_code) THEN None
    ELSE IF response.is_json
         THEN Some([type |-> "RuntimeError",
                    status_code |-> response.status_code,
                    body |-> response.data])
         ELSE Some([type |-> "JSONDecodeError"])

(***************************************************************************)
(* FGAClient._paginate.  pg holds the arguments and locals of the call:    *)
(* method, endpoint, params, body, response_key, results,                  *)
(* continuation_token.                                                     *)
(***************************************************************************)
PaginateCall(method, endpoint, params, body, response_key) ==
    [method |-> method, endpoint |-> endpoint, params |-> params,
     body |-> body, response_key |-> response_key,
     results |-> <<>>, continuation_token |-> None]

\* request_params that take the token whatever the method
PaginateParams_always(p) ==
    LET request_params ==
            IF p.params # None /\ p.params[1] # EmptyDict
            THEN p.params[1] ELSE EmptyDict
    IN  IF Truthy(p.continuation_token)
        THEN DictSet(request_params, "continuation_token",
                     p.continuation_token[1])
        ELSE request_params

\* request_params of the iteration
PaginateParams(p) ==
    LET request_params ==
            IF p.params # None /\ p.params[1] # EmptyDict
            THEN p.params[1] ELSE EmptyDict
    IN  IF Truthy(p.continuation_token) /\ Upper(p.method) = "GET"
        THEN DictSet(request_params, "continuation_token",
                     p.continuation_token[1])
        ELSE request_params

\* body after the iteration's `if continuation_token:` block
PaginateBody(p) ==
    IF Truthy(p.continuation_token) /\ Upper(p.method) # "GET"
    THEN Some(DictSet(IF p.body = None THEN EmptyDict ELSE p.body[1],
                      "continuation_token", p.continuation_token[1]))
    ELSE p.body

\* the request the iteration issues
PaginateRequest(p) ==
    [method |-> p.method, endpoint |-> p.endpoint,
     params |-> PaginateParams(p), json |-> PaginateBody(p)]

\* results.extend(items) with the page's items replacing the accumulator
Extend_replace(results, new) == new

\* results.extend(items)
Extend(results, new) == results \o new

\* The rest of the iteration once the response is there:
\* [outcome |-> "loop" | "return" | "raise", pg |-> the locals, exc]
PaginateOnResponse(p, response) ==
    LET p1   == [p EXCEPT !.body = PaginateBody(p)]
        err  == raise_for_status(response)
        data == response.data
        fail(t, q) == [outcome |-> "raise", pg |-> q, exc |-> [type |-> t]]
        \* from `continuation_token = data.get(...)` on
        tail(q) ==
            IF data.kind = "list" THEN fail("AttributeError", q)
            ELSE LET tok == Get(data, "continuation_token")
                     q1  == [q EXCEPT !.continuation_token = tok]
                 IN  [outcome |-> IF Truthy(tok) THEN "loop" ELSE "return",
                      pg |-> q1, exc |-> None]
    IN  IF err # None
        THEN [outcome |-> "raise", pg |-> p1, exc |-> err[1]]
        ELSE IF ~response.is_json THEN fail("JSONDecodeError", p1)
        ELSE IF TruthyStr(p.response_key)
        THEN IF data.kind = "list" THEN fail("AttributeError", p1)
             ELSE LET its == Get(data, p.response_key[1]) IN
                  IF its = None THEN fail("TypeError", p1)
                  ELSE tail([p1 EXCEPT
                                !.results = Extend(p1.results, its[1])])
        ELSE tail([p1 EXCEPT !.results =
                       Extend(p1.results,
                              IF data.kind = "list" THEN data.elems
                              ELSE data.order)])

\* the outcome of the call when the loop is left
PaginateResult(r) ==
    IF r.outcome = "raise" THEN Raise(r.exc) ELSE Return(r.pg.results)

(***************************************************************************)
(* The remote service, as far as the client depends on it (spec sections   *)
(* 3 and 6).  server.stores is the list of stores [id, name],              *)
(* server.models the list of models [id, store_id, schema], newest first,  *)
(* server.tuples the list of tuples [store_id, key] in the order the       *)
(* service returns them, key being the dict's val: the service decodes     *)
(* JSON, so the order of a tuple key's fields does not reach it.           *)
(* server.next is the next fresh identifier and server.page_size the       *)
(* length of a page of a list answer.                                      *)
(***************************************************************************)
StoreExists(srv, sid) == \E i \in 1..Len(srv.stores) : srv.stores[i].id = sid

\* the tuple keys of a store, as a set
TupleSet(srv, sid) ==
    { srv.tuples[i].key : i \in { j \in 1..Len(srv.tuples) :
                                     srv.tuples[j].store_id = sid } }

\* st = [there, list]: the tuple t added unless it is there
AddTuple(st, t) ==
    IF t \in st.there THEN st
    ELSE [there |-> st.there \cup {t}, list |-> Append(st.list, t)]

\* the keys batch[lo..hi] added to store sid in order (evaluated by halves)
RECURSIVE AddTuplesLoop(_, _, _, _, _)
AddTuplesLoop(batch, sid, lo, hi, st) ==
    IF lo > hi THEN st
    ELSE IF lo = hi
    THEN AddTuple(st, [store_id |-> sid, key |-> batch[lo].val])
    ELSE LET mid == (lo + hi) \div 2
             st1 == AddTuplesLoop(batch, sid, lo, mid, st)
         IN  IF Len(st1.list) >= 0
             THEN AddTuplesLoop(batch, sid, mid + 1, hi, st1) ELSE st1

\* the tuples with the keys of batch added to store sid in order, those
\* already there skipped
AddTuples(tuples, sid, batch) ==
    AddTuplesLoop(batch, sid, 1, Len(batch),
                  [there |-> Range(tuples), list |-> tuples]).list

\* the tuples with the keys of batch removed from store sid
RemoveTuples(tuples, sid, batch) ==
    LET gone == { [store_id |-> sid, key |-> batch[i].val] :
                    i \in 1..Len(batch) }
        keep(t) == t \notin gone
    IN  SelectSeq(tuples, keep)

\* whether the service accepts a write request: the store exists, and under
\* on_duplicate = "error" no key is already there, under
\* on_missing = "error" every key is there
WriteAccepted(srv, sid, body) ==
    /\ StoreExists(srv, sid)
    /\ IF "writes" \in DOMAIN body
       THEN \/ body.writes.on_duplicate = "ignore"
            \/ \A i \in 1..Len(body.writes.tuple_keys) :
                  body.writes.tuple_keys[i].val \notin TupleSet(srv, sid)
       ELSE \/ body.deletes.on_missing = "ignore"
            \/ \A i \in 1..Len(body.deletes.tuple_keys) :
                  body.deletes.tuple_keys[i].val \in TupleSet(srv, sid)

\* the service after an accepted write request
WriteApplied(srv, sid, body) ==
    [srv EXCEPT !.tuples =
        IF "writes" \in DOMAIN body
        THEN AddTuples(@, sid, body.writes.tuple_keys)
        ELSE RemoveTuples(@, sid, body.deletes.tuple_keys)]

ErrorBody == JsonDict(<<"code">>, [code |-> "error"])

OkResponse(data) == [status_code |-> 200, is_json |-> TRUE, data |-> data]

\* the failures the service may answer any request with
FailureResponses ==
    { [status_code |-> 400, is_json |-> TRUE, data |-> ErrorBody],
      [status_code |-> 404, is_json |-> TRUE, data |-> ErrorBody],
      [status_code |-> 500, is_json |-> FALSE, data |-> ErrorBody] }

Failures(srv) == { [response |-> f, server |-> srv] : f \in FailureResponses }

\* POST /stores/{id}/write: the possible answers, each with the service
\* after it
ServeWrite(srv, request) ==
    LET sid  == request.endpoint[2]
        body == request.json[1]
    IN  Failures(srv) \cup
        IF WriteAccepted(srv, sid, body)
        THEN { [response |-> OkResponse(JsonDict(<<>>, EmptyDict)),
                server |-> WriteApplied(srv, sid, body)] }
        ELSE {}

\* one page of a list answer: the items from the offset the request's
\* continuation token names, and the token of the next page ("" on the last)
PageOf(srv, key, all, dict) ==
    LET off  == IF "continuation_token" \in DOMAIN dict
                THEN dict.continuation_token ELSE 0
        stop == off + srv.page_size
    IN  JsonDict(<<key, "continuation_token">>,
                 [k \in {key, "continuation_token"} |->
                     IF k = key THEN Slice(all, off, stop)
                     ELSE IF stop < Len(all) THEN stop ELSE 0])

StoreJson(st) == JsonDict(<<"id", "name">>, [id |-> st.id, name |-> st.name])

ModelJson(m) == JsonDict(<<"id", "schema">>, [id |-> m.id, schema |-> m.schema])

\* GET /stores?name=
ServeListStores(srv, request) ==
    LET named(st) == \/ "name" \notin DOMAIN request.params
                     \/ st.name = request.params.name
        found == SelectSeq(srv.stores, named)
        all   == [i \in 1..Len(found) |-> StoreJson(found[i])]
    IN  Failures(srv) \cup
        { [response |-> OkResponse(PageOf(srv, "stores", all, request.params)),
           server |-> srv] }

\* most identifiers the service issues (stores and models together)
MaxIds == 3

\* POST /stores {name}
ServeCreateStore(srv, request) ==
    LET st == [id |-> srv.next, name |-> request.json[1].name] IN
    Failures(srv) \cup
    IF srv.next <= MaxIds
    THEN { [response |-> OkResponse(StoreJson(st)),
            server |-> [srv EXCEPT !.stores = Append(@, st),
                                   !.next = @ + 1]] }
    ELSE {}

\* GET /stores/{id}
ServeGetStore(srv, request) ==
    LET sid == request.endpoint[2]
        is(st) == st.id = sid
    IN  Failures(srv) \cup
        IF StoreExists(srv, sid)
        THEN { [response |-> OkResponse(StoreJson(SelectSeq(srv.stores, is)[1])),
                server |-> srv] }
        ELSE {}

\* DELETE /stores/{id}: the store goes with its models and tuples
ServeDeleteStore(srv, request) ==
    LET sid == request.endpoint[2]
        keepStore(st) == st.id # sid
        keepOther(x) == x.store_id # sid
    IN  Failures(srv) \cup
        IF StoreExists(srv, sid)
        THEN { [response |-> [status_code |-> 204, is_json |-> FALSE,
                              data |-> ErrorBody],
                server |-> [srv EXCEPT
                               !.stores = SelectSeq(@, keepStore),
                               !.models = SelectSeq(@, keepOther),
                               !.tuples = SelectSeq(@, keepOther)]] }
        ELSE {}

ModelsOf(srv, sid) ==
    LET of(m) == m.store_id = sid IN SelectSeq(srv.models, of)

\* GET /stores/{id}/authorization-models: newest first
ServeListModels(srv, request) ==
    LET sid == request.endpoint[2]
        ms  == ModelsOf(srv, sid)
        all == [i \in 1..Len(ms) |-> ModelJson(ms[i])]
    IN  Failures(srv) \cup
        IF StoreExists(srv, sid)
        THEN { [response |-> OkResponse(PageOf(srv, "authorization_models",
                                               all, request.params)),
                server |-> srv] }
        ELSE {}

\* POST /stores/{id}/authorization-models: a new model, whatever the schema
ServeCreateModel(srv, request) ==
    LET sid == request.endpoint[2]
        m   == [id |-> srv.next, store_id |-> sid, schema |-> request.json[1]]
    IN  Failures(srv) \cup
        IF StoreExists(srv, sid) /\ srv.next <= MaxIds
        THEN { [response |-> OkResponse(JsonDict(<<"authorization_model_id">>,
                                 [authorization_model_id |-> m.id])),
                server |-> [srv EXCEPT !.models = <<m>> \o @,
                                       !.next = @ + 1]] }
        ELSE {}

\* GET /stores/{id}/authorization-models/{model_id}
ServeGetModel(srv, request) ==
    LET sid == request.endpoint[2]
        is(m) == m.id = request.endpoint[4]
        ms  == SelectSeq(ModelsOf(srv, sid), is)
    IN  Failures(srv) \cup
        IF ms # <<>>
        THEN { [response |-> OkResponse(ModelJson(ms[1])), server |-> srv] }
        ELSE {}

\* whether a stored tuple matches the tuple_key filter of a read request
Matches(key, filter) == \A f \in DOMAIN filter : key[f] = filter[f]

\* POST /stores/{id}/read: the tuples as {key, timestamp} objects
ServeRead(srv, request) ==
    LET sid  == request.endpoint[2]
        body == request.json[1]
        wanted(t) == /\ t.store_id = sid
                     /\ \/ "tuple_key" \notin DOMAIN body
                        \/ Matches(t.key, body.tuple_key)
        found == SelectSeq(srv.tuples, wanted)
        all   == [i \in 1..Len(found) |->
                     [key |-> [order |-> CanonicalOrder, val |-> found[i].key],
                      timestamp |-> 0]]
    IN  Failures(srv) \cup
        IF StoreExists(srv, sid)
        THEN { [response |-> OkResponse(PageOf(srv, "tuples", all, body)),
                server |-> srv] }
        ELSE {}

\* POST /stores/{id}/check: allowed when the tuple is in the store
ServeCheck(srv, request) ==
    LET sid  == request.endpoint[2]
        body == request.json[1]
    IN  Failures(srv) \cup
        IF StoreExists(srv, sid)
        THEN { [response |-> OkResponse(JsonDict(<<"allowed">>,
                   [allowed |-> body.tuple_key \in TupleSet(srv, sid)])),
                server |-> srv] }
        ELSE {}

\* POST /stores/{id}/list-objects and /list-users: the identifiers
\* srv.names, paged under the key "objects" or "users"
ServeListNames(srv, request, key) ==
    LET sid == request.endpoint[2] IN
    Failures(srv) \cup
    IF StoreExists(srv, sid)
    THEN { [response |-> OkResponse(PageOf(srv, key, srv.names,
                                           request.json[1])),
            server |-> srv] }
    ELSE {}

\* the answers the service may give to a request, each with the service
\* after it
Serve(srv, request) ==
    LET ep == request.endpoint
        m  == Upper(request.method)
    IN  CASE Len(ep) = 1 /\ m = "GET" -> ServeListStores(srv, request)
          [] Len(ep) = 1 /\ m = "POST" -> ServeCreateStore(srv, request)
          [] Len(ep) = 2 /\ m = "GET" -> ServeGetStore(srv, request)
          [] Len(ep) = 2 /\ m = "DELETE" -> ServeDeleteStore(srv, request)
          [] Len(ep) = 3 /\ ep[3] = "authorization-models" /\ m = "GET" ->
                ServeListModels(srv, request)
          [] Len(ep) = 3 /\ ep[3] = "authorization-models" /\ m = "POST" ->
                ServeCreateModel(srv, request)
          [] Len(ep) = 4 /\ m = "GET" -> ServeGetModel(srv, request)
          [] Len(ep) = 3 /\ ep[3] = "write" /\ m = "POST" ->
                ServeWrite(srv, request)
          [] Len(ep) = 3 /\ ep[3] = "read" /\ m = "POST" ->
                ServeRead(srv, request)
          [] Len(ep) = 3 /\ ep[3] = "check" /\ m = "POST" ->
                ServeCheck(srv, request)
          [] Len(ep) = 3 /\ ep[3] = "list-objects" /\ m = "POST" ->
                ServeListNames(srv, request, "objects")
          [] Len(ep) = 3 /\ ep[3] = "list-users" /\ m = "POST" ->
                ServeListNames(srv, request, "users")
          [] OTHER -> Failures(srv)

(***************************************************************************)
(* FGAClient: identity resolution.                                         *)
(***************************************************************************)
\* FGAClient.__init__: the instance takes the globals of the moment
\* FGAClient() that ignores the process-wide identifiers
NewClient_blank(g) == [store_id |-> None, model_id |-> None]

NewClient(g) == [store_id |-> g.store_id, model_id |-> g.model_id]

ValueError(message) == [type |-> "ValueError", message |-> message]

\* _get_store_id that prefers the instance's identifier to the argument
get_store_id_self_first(slf, store_id) ==
    LET sid == Or(slf.store_id, store_id) IN
    IF ~Truthy(sid) THEN Raise(ValueError("store_id must be provided"))
    ELSE Return(sid[1])

\* self._get_store_id(store_id)
get_store_id(slf, store_id) ==
    LET sid == Or(store_id, slf.store_id) IN
    IF ~Truthy(sid) THEN Raise(ValueError("store_id must be provided"))
    ELSE Return(sid[1])

\* self._get_model_id(model_id)
get_model_id(slf, model_id) ==
    LET mid == Or(model_id, slf.model_id) IN
    IF ~Truthy(mid) THEN Raise(ValueError("model_id must be provided"))
    ELSE Return(mid[1])

(***************************************************************************)
(* FGAClient.write_tuples and FGAClient.delete_tuples.  wr holds the       *)
(* locals: kind ("writes" or "deletes"), the resolved store_id and         *)
(* model_id, tolerant (ignore_duplicates / ignore_missing), the batches of *)
(* the for loop and the number of them already sent.                       *)
(***************************************************************************)
BatchLimit == 100

WriterCall(kind, tuples, store_id, model_id, tolerant) ==
    [kind |-> kind, store_id |-> store_id, model_id |-> model_id,
     tolerant |-> tolerant,
     batches |-> batcherize(dedupe(tuples), BatchLimit), sent |-> 0]

\* the request for the next batch that always asks for an error on a
\* duplicate or missing tuple
WriterRequest_strict(w) ==
    LET batch == w.batches[w.sent + 1] IN
    [method |-> "POST",
     endpoint |-> <<"/stores", w.store_id, "write">>,
     params |-> EmptyDict,
     json |-> Some(IF w.kind = "writes"
                   THEN [writes |-> [tuple_keys |-> batch,
                                     on_duplicate |-> "error"],
                         authorization_model_id |-> w.model_id]
                   ELSE [deletes |-> [tuple_keys |-> batch,
                                      on_missing |-> "error"],
                         authorization_model_id |-> w.model_id])]

\* the request for the next batch
WriterRequest(w) ==
    LET batch == w.batches[w.sent + 1]
        flag  == IF w.tolerant THEN "ignore" ELSE "error"
    IN  [method |-> "POST",
         endpoint |-> <<"/stores", w.store_id, "write">>,
         params |-> EmptyDict,
         json |-> Some(IF w.kind = "writes"
                       THEN [writes |-> [tuple_keys |-> batch,
                                         on_duplicate |-> flag],
                             authorization_model_id |-> w.model_id]
                       ELSE [deletes |-> [tuple_keys |-> batch,
                                          on_missing |-> flag],
                             authorization_model_id |-> w.model_id])]

\* the loop that goes on to the next batch whatever the response was
WriterOnResponse_no_check(w, response) ==
    LET w1 == [w EXCEPT !.sent = @ + 1] IN
    [outcome |-> IF w1.sent < Len(w1.batches) THEN "loop" ELSE "return",
     wr |-> w1, exc |-> None]

\* the rest of the loop body once the response is there
WriterOnResponse(w, response) ==
    LET err == raise_for_status(response)
        w1  == [w EXCEPT !.sent = @ + 1]
    IN  IF err # None THEN [outcome |-> "raise", wr |-> w, exc |-> err[1]]
        ELSE [outcome |-> IF w1.sent < Len(w1.batches)
                          THEN "loop" ELSE "return",
              wr |-> w1, exc |-> None]

\* write_tuples / delete_tuples up to the for loop:
\* [outcome |-> "raise" | "loop" | "return", wr, exc]
WriterEnter(slf, kind, tuples, store_id, model_id, tolerant) ==
    LET sid == get_store_id(slf, store_id)
        mid == get_model_id(slf, model_id)
        w   == WriterCall(kind, tuples, sid.value, mid.value, tolerant)
    IN  IF sid.kind = "raise"
        THEN [outcome |-> "raise", wr |-> None, exc |-> sid.exc]
        ELSE IF mid.kind = "raise"
        THEN [outcome |-> "raise", wr |-> None, exc |-> mid.exc]
        ELSE [outcome |-> IF w.batches = <<>> THEN "return" ELSE "loop",
              wr |-> Some(w), exc |-> None]

(***************************************************************************)
(* FGAClient: the requests of the other operations.                        *)
(***************************************************************************)
StoreName == "fga"

Consistency == "MINIMIZE_LATENCY"

\* `_raise_for_status(response); return response.json()`
JsonOrRaise(response) ==
    LET err == raise_for_status(response) IN
    IF err # None THEN Raise(err[1])
    ELSE IF ~response.is_json THEN Raise([type |-> "JSONDecodeError"])
    ELSE Return(response.data)

\* list_stores(name=name)
ListStoresCall(name) ==
    PaginateCall("GET", <<"/stores">>,
                 Some([name |-> name, consistency |-> Consistency]),
                 None, Some("stores"))

\* create_store(name)
CreateStoreRequest(name) ==
    [method |-> "POST", endpoint |-> <<"/stores">>, params |-> EmptyDict,
     json |-> Some([name |-> name])]

\* create_model that posts the schema to the store before sid
CreateModelRequest_other(sid, schema) ==
    [method |-> "POST",
     endpoint |-> <<"/stores", sid - 1, "authorization-models">>,
     params |-> EmptyDict, json |-> Some(schema)]

\* create_model(schema, store_id), the identifier resolved
CreateModelRequest(sid, schema) ==
    [method |-> "POST",
     endpoint |-> <<"/stores", sid, "authorization-models">>,
     params |-> EmptyDict, json |-> Some(schema)]

\* read_tuples(user, relation, object), the identifier resolved; filter is
\* the dict of the truthy arguments
ReadTuplesCall(sid, filter) ==
    PaginateCall("POST", <<"/stores", sid, "read">>, None,
                 Some(IF filter = EmptyDict
                      THEN [consistency |-> Consistency]
                      ELSE [consistency |-> Consistency,
                            tuple_key |-> filter]),
                 Some("tuples"))

(***************************************************************************)
(* SpecPure: dedupe and batcherize applied to every list of at most MaxLen *)
(* tuple keys over a small universe, and every chunk size 1..MaxN.         *)
(***************************************************************************)
\* no operation in progress
CallIdle ==
    /\ pc = "idle"
    /\ pg = None
    /\ wr = None
    /\ ret = None
    /\ call = None
    /\ log = <<>>
    /\ served = <<>>

NoIds == [store_id |-> None, model_id |-> None]

EmptyServer ==
    [stores |-> <<>>, models |-> <<>>, tuples |-> <<>>, next |-> 1,
     page_size |-> 100]

\* a fresh process (no identifier loaded) and an empty service
EnvIdle ==
    /\ self = NoIds
    /\ globals = NoIds
    /\ server = EmptyServer

\* dedupe and batcherize are not being exercised
PureIdle ==
    /\ lst = <<>>
    /\ n = 1
    /\ deduped_list = None
    /\ chunks = None

SmallKeys ==
    { TupleKey(u, 1, 1, ord) : u \in 1..2, ord \in FieldOrders }

ListsUpTo(S, len) == UNION { [1..m -> S] : m \in 0..len }

InitPure ==
    /\ lst \in ListsUpTo(SmallKeys, MaxLen)
    /\ n \in 1..MaxN
    /\ deduped_list = None
    /\ chunks = None
    /\ CallIdle
    /\ EnvIdle

ApplyDedupe ==
    /\ deduped_list = None
    /\ deduped_list' = Some(dedupe(lst))
    /\ UNCHANGED <<lst, n, chunks, callVars, envVars>>

ApplyBatcherize ==
    /\ chunks = None
    /\ chunks' = Some(batcherize(lst, n))
    /\ UNCHANGED <<lst, n, deduped_list, callVars, envVars>>

NextPure == ApplyDedupe \/ ApplyBatcherize

SpecPure == InitPure /\ [][NextPure]_vars

(***************************************************************************)
(* SpecPaginate: one call of _paginate against a mock server that answers  *)
(* every request with any response of MockResponses, at most MaxPages      *)
(* pages per call.                                                         *)
(***************************************************************************)
Methods == {"GET", "get", "POST"}

\* the item arrays a mock page may hold
ItemLists == { <<>>, <<1>>, <<2, 1>> }

\* the continuation tokens a mock page may carry: missing, "", two cursors
MockTokens == { None, Some(0), Some(1), Some(2) }

MockPage(its, tok) ==
    IF tok = None
    THEN JsonDict(<<"items">>, [items |-> its])
    ELSE JsonDict(<<"items", "continuation_token">>,
                  [items |-> its, continuation_token |-> tok[1]])

MockResponses ==
    \* a page: an object with the item array and maybe a token
    { [status_code |-> 200, is_json |-> TRUE, data |-> MockPage(its, tok)] :
        its \in ItemLists, tok \in MockTokens }
    \* a bare array
    \cup { [status_code |-> 200, is_json |-> TRUE, data |-> JsonList(its)] :
             its \in ItemLists }
    \* an object without the item array, a body that is no JSON
    \cup { [status_code |-> 200, is_json |-> TRUE,
            data |-> JsonDict(<<>>, EmptyDict)],
           [status_code |-> 200, is_json |-> FALSE, data |-> ErrorBody] }
    \* failures
    \cup { [status_code |-> c, is_json |-> j, data |-> ErrorBody] :
             c \in {404, 500}, j \in BOOLEAN }

MockParams == { None, Some([name |-> 1]) }

MockBodies == { None, Some([consistency |-> "MINIMIZE_LATENCY"]) }

MockKeys == { None, Some("items") }

InitPaginate ==
    /\ PureIdle
    /\ CallIdle
    /\ EnvIdle

\* the caller enters _paginate
CallPaginate ==
    /\ pc = "idle"
    /\ \E m \in Methods, ps \in MockParams, b \in MockBodies, k \in MockKeys :
          /\ pg' = Some(PaginateCall(m, <<"/things">>, ps, b, k))
          /\ call' = Some([op |-> "_paginate", method |-> m, params |-> ps,
                           body |-> b, response_key |-> k])
    /\ pc' = "paginate"
    /\ UNCHANGED <<wr, ret, log, served, pureVars, envVars>>

\* one iteration of the loop of _paginate: the request, the response, and
\* what the loop does with it
PaginateStep ==
    /\ pc = "paginate"
    /\ Len(served) < MaxPages
    /\ \E response \in MockResponses :
          LET r == PaginateOnResponse(pg[1], response) IN
          /\ log' = Append(log, PaginateRequest(pg[1]))
          /\ served' = Append(served, response)
          /\ pg' = Some(r.pg)
          /\ pc' = IF r.outcome = "loop" THEN "paginate" ELSE "done"
          /\ ret' = IF r.outcome = "loop" THEN None
                    ELSE Some(PaginateResult(r))
    /\ UNCHANGED <<wr, call, pureVars, envVars>>

NextPaginate == CallPaginate \/ PaginateStep

SpecPaginate == InitPaginate /\ [][NextPaginate]_vars

(***************************************************************************)
(* SpecWriter: one call of write_tuples or delete_tuples on an instance    *)
(* with or without configured identifiers, against a service that holds    *)
(* two stores and may fail any request.                                    *)
(***************************************************************************)
AltOrder == <<"relation", "user", "object">>

\* the tuple keys of users a..b, fields in the usual order
KeySeq(a, b) ==
    [i \in 1..(b - a + 1) |-> TupleKey(a + i - 1, 1, 1, CanonicalOrder)]

\* the tuple lists passed to the writer: every short list, lists around the
\* batch limit, and lists that repeat a key past the batch limit
WriterInputs ==
    ListsUpTo(SmallKeys, 2)
    \cup { KeySeq(1, m) : m \in {100, 101, 150, 201} }
    \cup { KeySeq(1, 100) \o <<TupleKey(1, 1, 1, CanonicalOrder)>>,
           KeySeq(1, 100) \o <<TupleKey(1, 1, 1, AltOrder)>>,
           KeySeq(1, 100) \o KeySeq(51, 150) }

StoredKeys(sid, a, b) ==
    [i \in 1..(b - a + 1) |->
        [store_id |-> sid, key |-> KeySeq(a, b)[i].val]]

WriterServers ==
    { [stores |-> <<[id |-> 1, name |-> "fga"], [id |-> 2, name |-> "other"]>>,
       models |-> <<[id |-> 3, store_id |-> 1, schema |-> 1]>>,
       tuples |-> ts, next |-> 4, page_size |-> 100] :
        ts \in { <<>>, StoredKeys(1, 1, 2), StoredKeys(1, 1, 120) } }

InitWriter ==
    /\ PureIdle
    /\ CallIdle
    /\ globals = NoIds
    /\ self \in { NoIds, [store_id |-> Some(1), model_id |-> Some(3)] }
    /\ server \in WriterServers

\* the entry of write_tuples / delete_tuples up to the for loop
EnterWriter(kind, here, tuples, store_id, model_id, tolerant) ==
    /\ pc = "idle"
    /\ call' = Some([op |-> here, tuples |-> tuples,
                     store_id |-> store_id, model_id |-> model_id,
                     tolerant |-> tolerant, before |-> server.tuples,
                  server |-> server, globals |-> globals])
    /\ \E e \in {WriterEnter(self, kind, tuples, store_id, model_id,
                              tolerant)} :
          /\ wr' = e.wr
          /\ pc' = IF e.outcome = "loop" THEN here ELSE "done"
          /\ ret' = CASE e.outcome = "loop" -> None
                      [] e.outcome = "raise" -> Some(Raise(e.exc))
                      [] OTHER -> Some(Return(None))
    /\ UNCHANGED <<pg, log, served, pureVars, envVars>>

\* one iteration of the for loop: the request for the next batch, the
\* service's answer, _raise_for_status
WriterStep(here) ==
    /\ pc = here
    /\ \E o \in ServeWrite(server, WriterRequest(wr[1])) :
          LET r == WriterOnResponse(wr[1], o.response) IN
          /\ log' = Append(log, WriterRequest(wr[1]))
          /\ served' = Append(served, o.response)
          /\ server' = o.server
          /\ wr' = Some(r.wr)
          /\ pc' = IF r.outcome = "loop" THEN here ELSE "done"
          /\ ret' = CASE r.outcome = "loop" -> None
                      [] r.outcome = "raise" -> Some(Raise(r.exc))
                      [] OTHER -> Some(Return(None))
    /\ UNCHANGED <<pg, call, pureVars, self, globals>>

\* the store_id and model_id arguments: omitted, empty, and the identifier
\* of another store / another model than the configured one
StoreIdArgs == { None, Some(0), Some(2) }

ModelIdArgs == { None, Some(0), Some(3) }

WriteTuplesOf(inputs) ==
    \E tuples \in inputs, store_id \in StoreIdArgs,
       model_id \in ModelIdArgs, ignore_duplicates \in BOOLEAN :
        EnterWriter("writes", "write_tuples", tuples, store_id, model_id,
                    ignore_duplicates)

DeleteTuplesOf(inputs) ==
    \E tuples \in inputs, store_id \in StoreIdArgs,
       model_id \in ModelIdArgs, ignore_missing \in BOOLEAN :
        EnterWriter("deletes", "delete_tuples", tuples, store_id, model_id,
                    ignore_missing)

CallWriteTuples == WriteTuplesOf(WriterInputs)

CallDeleteTuples == DeleteTuplesOf(WriterInputs)

WriteTuplesStep == WriterStep("write_tuples")

DeleteTuplesStep == WriterStep("delete_tuples")

NextWriter ==
    \/ CallWriteTuples
    \/ CallDeleteTuples
    \/ WriteTuplesStep
    \/ DeleteTuplesStep

SpecWriter == InitWriter /\ [][NextWriter]_vars

(***************************************************************************)
(* SpecReconcile: one pass of sync_fga_database.main against a service     *)
(* that may or may not hold the store, holds few or many tuples, pages its *)
(* lists by 2 or by 100, and may fail any request.                         *)
(***************************************************************************)
\* the request, the service's answer o and the service after it
Exchange(request, o) ==
    /\ log' = Append(log, request)
    /\ served' = Append(served, o.response)
    /\ server' = o.server

\* the operation ends by raising exc
Raises(exc) == pc' = "done" /\ ret' = Some(Raise(exc))

\* ensure_seed from `client.write_tuples(tuples, ignore_duplicates=True)` on
SeedWrite(slf, tuples) ==
    LET e == WriterEnter(slf, "writes", tuples, None, None, TRUE) IN
    [pc  |-> IF e.outcome = "loop" THEN "sync_write" ELSE "done",
     wr  |-> e.wr,
     ret |-> CASE e.outcome = "loop" -> None
               [] e.outcome = "raise" -> Some(Raise(e.exc))
               [] OTHER -> Some(Return(None))]

\* the mutant of SeedDelete that asks for an error on a missing tuple
SeedDelete_strict(slf, all_tuples, tuples) ==
    LET keys == [i \in 1..Len(all_tuples) |-> all_tuples[i].key]
        e    == WriterEnter(slf, "deletes", keys, None, None, FALSE)
    IN  CASE e.outcome = "loop" ->
                [pc |-> "sync_delete", wr |-> e.wr, ret |-> None]
          [] e.outcome = "raise" ->
                [pc |-> "done", wr |-> e.wr, ret |-> Some(Raise(e.exc))]
          [] OTHER -> SeedWrite(slf, tuples)

\* ensure_seed from `client.delete_tuples([t["key"] for t in all_tuples])`
\* on
SeedDelete(slf, all_tuples, tuples) ==
    LET keys == [i \in 1..Len(all_tuples) |-> all_tuples[i].key]
        e    == WriterEnter(slf, "deletes", keys, None, None, TRUE)
    IN  CASE e.outcome = "loop" ->
                [pc |-> "sync_delete", wr |-> e.wr, ret |-> None]
          [] e.outcome = "raise" ->
                [pc |-> "done", wr |-> e.wr, ret |-> Some(Raise(e.exc))]
          [] OTHER -> SeedWrite(slf, tuples)

Schemas == { [schema_version |-> "1.1"] }

\* the desired tuple sets: short lists (with repeated keys), a list that
\* overlaps the stored tuples, and one of more than a batch
SeedInputs ==
    ListsUpTo(SmallKeys, 2) \cup { KeySeq(2, 4), KeySeq(1, 101) }

ReconcileServers ==
    { [EmptyServer EXCEPT !.page_size = ps] : ps \in {2, 100} }
    \cup
    { [stores |-> <<[id |-> 1, name |-> "other"],
                    [id |-> 2, name |-> StoreName]>>,
       models |-> <<>>,
       tuples |-> StoredKeys(1, 1, 1) \o ts, next |-> 3, page_size |-> ps] :
        ts \in { <<>>, StoredKeys(2, 1, 3), StoredKeys(2, 1, 150) },
        ps \in {2, 100} }
    \cup
    \* the store with a model of the schema the pass is about to publish
    { [stores |-> <<[id |-> 1, name |-> StoreName]>>,
       models |-> <<[id |-> 2, store_id |-> 1, schema |-> schema]>>,
       tuples |-> StoredKeys(1, 1, 3), next |-> 3, page_size |-> 2] :
        schema \in Schemas }

InitReconcile ==
    /\ PureIdle
    /\ CallIdle
    /\ self = NoIds
    /\ globals = NoIds
    /\ server \in ReconcileServers

\* main up to the first request: the FGAClient is constructed, ensure_store
\* enters list_stores(name=...)
SyncStart ==
    /\ pc = "idle"
    /\ \E tuples \in SeedInputs, schema \in Schemas :
          call' = Some([op |-> "sync", tuples |-> tuples, schema |-> schema,
                        before |-> server.tuples,
                        models |-> server.models])
    /\ self' = NewClient(globals)
    /\ pg' = Some(ListStoresCall(StoreName))
    /\ pc' = "sync_get_store"
    /\ UNCHANGED <<wr, ret, log, served, pureVars, globals, server>>

\* get_store: one iteration of list_stores; once the list is complete,
\* ensure_store takes its first store, ensure_store_and_model sets
\* client.store_id
SyncGetStoreStep ==
    /\ pc = "sync_get_store"
    /\ \E o \in Serve(server, PaginateRequest(pg[1])) :
          LET r == PaginateOnResponse(pg[1], o.response) IN
          /\ Exchange(PaginateRequest(pg[1]), o)
          /\ pg' = Some(r.pg)
          /\ CASE r.outcome = "loop" ->
                    pc' = "sync_get_store" /\ ret' = None /\ self' = self
               [] r.outcome = "raise" -> Raises(r.exc) /\ self' = self
               [] OTHER ->
                    /\ ret' = None
                    /\ IF r.pg.results # <<>>
                       THEN /\ pc' = "sync_create_model"
                            /\ self' = [self EXCEPT !.store_id =
                                           Some(r.pg.results[1].val.id)]
                       ELSE pc' = "sync_create_store" /\ self' = self
    /\ UNCHANGED <<wr, call, pureVars, globals>>

\* ensure_store: create_store when the lookup found none
SyncCreateStoreStep ==
    /\ pc = "sync_create_store"
    /\ \E o \in Serve(server, CreateStoreRequest(StoreName)) :
          LET store == JsonOrRaise(o.response) IN
          /\ Exchange(CreateStoreRequest(StoreName), o)
          /\ IF store.kind = "raise"
             THEN Raises(store.exc) /\ self' = self
             ELSE /\ pc' = "sync_create_model"
                  /\ ret' = None
                  /\ self' = [self EXCEPT !.store_id =
                                 Some(store.value.val.id)]
    /\ UNCHANGED <<pg, wr, call, pureVars, globals>>

\* create_model, client.model_id set to its authorization_model_id, and
\* ensure_seed up to the first request of read_tuples
SyncCreateModelStep ==
    /\ pc = "sync_create_model"
    /\ LET sid == get_store_id(self, None) IN
       IF sid.kind = "raise"
       THEN /\ Raises(sid.exc)
            /\ UNCHANGED <<pg, log, served, self, server>>
       ELSE \E o \in Serve(server, CreateModelRequest(sid.value,
                                                      call[1].schema)) :
              LET result == JsonOrRaise(o.response) IN
              /\ Exchange(CreateModelRequest(sid.value, call[1].schema), o)
              /\ IF result.kind = "raise"
                 THEN Raises(result.exc) /\ self' = self /\ pg' = pg
                 ELSE /\ self' = [self EXCEPT !.model_id =
                             Some(result.value.val.authorization_model_id)]
                      /\ pg' = Some(ReadTuplesCall(sid.value, EmptyDict))
                      /\ pc' = "sync_read"
                      /\ ret' = None
    /\ UNCHANGED <<wr, call, pureVars, globals>>

\* read_tuples: one iteration; once the list is complete, ensure_seed goes
\* on to delete_tuples (and to write_tuples when there is nothing to delete)
SyncReadStep ==
    /\ pc = "sync_read"
    /\ \E o \in Serve(server, PaginateRequest(pg[1])) :
          LET r == PaginateOnResponse(pg[1], o.response) IN
          /\ Exchange(PaginateRequest(pg[1]), o)
          /\ pg' = Some(r.pg)
          /\ CASE r.outcome = "loop" ->
                    pc' = "sync_read" /\ ret' = None /\ wr' = wr
               [] r.outcome = "raise" -> Raises(r.exc) /\ wr' = wr
               [] OTHER ->
                    \E c \in {SeedDelete(self, r.pg.results,
                                         call[1].tuples)} :
                        pc' = c.pc /\ wr' = c.wr /\ ret' = c.ret
    /\ UNCHANGED <<call, pureVars, self, globals>>

\* delete_tuples: one batch; after the last one ensure_seed goes on to
\* write_tuples
SyncDeleteStep ==
    /\ pc = "sync_delete"
    /\ \E o \in Serve(server, WriterRequest(wr[1])) :
          LET r == WriterOnResponse(wr[1], o.response) IN
          /\ Exchange(WriterRequest(wr[1]), o)
          /\ CASE r.outcome = "loop" ->
                    pc' = "sync_delete" /\ ret' = None /\ wr' = Some(r.wr)
               [] r.outcome = "raise" -> Raises(r.exc) /\ wr' = Some(r.wr)
               [] OTHER ->
                    \E c \in {SeedWrite(self, call[1].tuples)} :
                        pc' = c.pc /\ wr' = c.wr /\ ret' = c.ret
    /\ UNCHANGED <<pg, call, pureVars, self, globals>>

\* write_tuples: one batch; after the last one the pass is over
SyncWriteStep ==
    /\ pc = "sync_write"
    /\ \E o \in Serve(server, WriterRequest(wr[1])) :
          LET r == WriterOnResponse(wr[1], o.response) IN
          /\ Exchange(WriterRequest(wr[1]), o)
          /\ wr' = Some(r.wr)
          /\ pc' = IF r.outcome = "loop" THEN "sync_write" ELSE "done"
          /\ ret' = CASE r.outcome = "loop" -> None
                      [] r.outcome = "raise" -> Some(Raise(r.exc))
                      [] OTHER -> Some(Return(None))
    /\ UNCHANGED <<pg, call, pureVars, self, globals>>

NextReconcile ==
    \/ SyncStart
    \/ SyncGetStoreStep
    \/ SyncCreateStoreStep
    \/ SyncCreateModelStep
    \/ SyncReadStep
    \/ SyncDeleteStep
    \/ SyncWriteStep

SpecReconcile == InitReconcile /\ [][NextReconcile]_vars

(***************************************************************************)
(* SpecClient: the operations of FGAClient, one call at a time, on an      *)
(* instance that may have been constructed before or after                 *)
(* load_store_and_model ran, against an empty service or one that holds    *)
(* two stores with their models and tuples.  A string with colons is the   *)
(* sequence of its colon-separated segments.                               *)
(***************************************************************************)
\* _get_store_id then _get_model_id
ResolveIds(slf, store_id, model_id) ==
    LET sid == get_store_id(slf, store_id)
        mid == get_model_id(slf, model_id)
    IN  IF sid.kind = "raise" THEN sid
        ELSE IF mid.kind = "raise" THEN mid
        ELSE Return([store_id |-> sid.value, model_id |-> mid.value])

\* `_raise_for_status(response)` as the last statement
NoneOrRaise(response) ==
    LET err == raise_for_status(response) IN
    IF err # None THEN Raise(err[1]) ELSE Return(None)

\* get_store by name that never finds a store
FirstOrNone_none(l) == Return(None)

\* `if stores: return stores[0]` / `return None`
FirstOrNone(l) == Return(IF l # <<>> THEN l[1] ELSE None)

\* get_store by id that takes every 4xx answer for an absent store
GetStoreResult_any4xx(response) ==
    IF response.status_code \in 400..499 THEN Return(None)
    ELSE JsonOrRaise(response)

\* get_store by id, from `if response.status_code == 404` on
GetStoreResult(response) ==
    IF response.status_code = 404 THEN Return(None)
    ELSE JsonOrRaise(response)

GetStoreRequest(sid) ==
    [method |-> "GET", endpoint |-> <<"/stores", sid>>,
     params |-> EmptyDict, json |-> None]

DeleteStoreRequest(sid) ==
    [method |-> "DELETE", endpoint |-> <<"/stores", sid>>,
     params |-> EmptyDict, json |-> None]

\* get_models(store_id), the identifier resolved
GetModelsCall(sid) ==
    PaginateCall("GET", <<"/stores", sid, "authorization-models">>,
                 None, None, Some("authorization_models"))

GetModelRequest(ids) ==
    [method |-> "GET",
     endpoint |-> <<"/stores", ids.store_id, "authorization-models",
                    ids.model_id>>,
     params |-> EmptyDict, json |-> None]

CheckRequest(ids, user, relation, object) ==
    [method |-> "POST", endpoint |-> <<"/stores", ids.store_id, "check">>,
     params |-> EmptyDict,
     json |-> Some([tuple_key |-> [user |-> user, relation |-> relation,
                                   object |-> object],
                    authorization_model_id |-> ids.model_id,
                    consistency |-> Consistency])]

\* is_allowed: result.get("allowed", False)
AllowedResult(response) ==
    LET result == JsonOrRaise(response) IN
    IF result.kind = "raise" THEN result
    ELSE IF result.value.kind = "list"
    THEN Raise([type |-> "AttributeError"])
    ELSE LET allowed == Get(result.value, "allowed") IN
         Return(IF allowed = None THEN FALSE ELSE allowed[1])

ListObjectsCall(ids, user, relation, object_type) ==
    PaginateCall("POST", <<"/stores", ids.store_id, "list-objects">>, None,
                 Some([user |-> user, relation |-> relation,
                       type |-> object_type,
                       authorization_model_id |-> ids.model_id,
                       consistency |-> Consistency]),
                 Some("objects"))

\* list_users, `object_id, object_type = object.split(":", 1)` done
ListUsersCall(ids, object_id, object_type, relation) ==
    PaginateCall("POST", <<"/stores", ids.store_id, "list-users">>, None,
                 Some([object |-> [type |-> object_type, id |-> object_id],
                       relation |-> relation,
                       authorization_model_id |-> ids.model_id,
                       consistency |-> Consistency]),
                 Some("users"))

\* `[x.split(":") for x in xs]` then `[x_id for _, x_id in xs]`
IdsOnly(xs) ==
    IF \A i \in 1..Len(xs) : Len(xs[i]) = 2
    THEN Return([i \in 1..Len(xs) |-> <<xs[i][2]>>])
    ELSE Raise(ValueError("unpack"))

\* list_objects / list_users after the pagination
NamesResult(xs) == IF call[1].ids_only THEN IdsOnly(xs) ELSE Return(xs)

\* the call starts: its name and arguments
Begin(op, store_id, model_id, args) ==
    call' = Some([op |-> op, store_id |-> store_id, model_id |-> model_id,
                  args |-> args, ids_only |-> FALSE,
                  before |-> server.tuples,
                  server |-> server, globals |-> globals])

\* an operation of one request, from the response on
ResultOf(op, response) ==
    CASE op = "get_store" -> GetStoreResult(response)
      [] op = "delete_store" -> NoneOrRaise(response)
      [] op = "is_allowed" -> AllowedResult(response)
      [] OTHER -> JsonOrRaise(response)

\* an operation that calls _paginate, from the list it returned on
ResultOfList(op, xs) ==
    CASE op \in {"get_store", "get_latest_model"} -> FirstOrNone(xs)
      [] op \in {"list_objects", "list_users"} -> NamesResult(xs)
      [] OTHER -> Return(xs)

\* an operation of one request that lists the stores before it looks at
\* the resolution of its identifiers
OneRequest_probe(op, res, request) ==
    /\ pc = "idle"
    /\ IF res.kind = "raise"
       THEN /\ Raises(res.exc)
            /\ \E o \in Serve(server, PaginateRequest(ListStoresCall(""))) :
                   Exchange(PaginateRequest(ListStoresCall("")), o)
       ELSE \E o \in Serve(server, request) :
              /\ Exchange(request, o)
              /\ pc' = "done"
              /\ ret' = Some(ResultOf(op, o.response))
    /\ UNCHANGED <<pg, wr, pureVars, self, globals>>

\* an operation of one request: res is the resolution of the identifiers
OneRequest(op, res, request) ==
    /\ pc = "idle"
    /\ IF res.kind = "raise"
       THEN Raises(res.exc) /\ UNCHANGED <<log, served, server>>
       ELSE \E o \in Serve(server, request) :
              /\ Exchange(request, o)
              /\ pc' = "done"
              /\ ret' = Some(ResultOf(op, o.response))
    /\ UNCHANGED <<pg, wr, pureVars, self, globals>>

\* an operation enters _paginate with the call p once its identifiers are
\* resolved
EnterPaginate(here, res, p) ==
    /\ pc = "idle"
    /\ IF res.kind = "raise"
       THEN Raises(res.exc) /\ pg' = pg
       ELSE pc' = here /\ ret' = None /\ pg' = Some(p)
    /\ UNCHANGED <<wr, log, served, pureVars, envVars>>

\* one iteration of _paginate inside the operation `here`
PaginatedStep(here) ==
    /\ pc = here
    /\ \E o \in Serve(server, PaginateRequest(pg[1])) :
          LET r == PaginateOnResponse(pg[1], o.response) IN
          /\ Exchange(PaginateRequest(pg[1]), o)
          /\ pg' = Some(r.pg)
          /\ pc' = IF r.outcome = "loop" THEN here ELSE "done"
          /\ ret' = CASE r.outcome = "loop" -> None
                      [] r.outcome = "raise" -> Some(Raise(r.exc))
                      [] OTHER -> Some(ResultOfList(here, r.pg.results))
    /\ UNCHANGED <<wr, call, pureVars, self, globals>>

\* FGAClient(): the instance takes the process-wide identifiers
Construct ==
    /\ pc = "idle"
    /\ Begin("__init__", None, None, <<>>)
    /\ self' = NewClient(globals)
    /\ pc' = "done"
    /\ ret' = Some(Return(None))
    /\ UNCHANGED <<pg, wr, log, served, pureVars, globals, server>>

\* the caller goes on after the constructor or load_store_and_model
Returns ==
    /\ pc = "done"
    /\ call[1].op \in {"__init__", "load_store_and_model"}
    /\ pc' = "idle"
    /\ pg' = None
    /\ wr' = None
    /\ ret' = None
    /\ call' = None
    /\ log' = <<>>
    /\ served' = <<>>
    /\ UNCHANGED <<pureVars, envVars>>

\* load_store_and_model enters ensure_store -> get_store -> list_stores
CallLoad ==
    /\ Begin("load_store_and_model", None, None, <<>>)
    /\ EnterPaginate("load_get_store", Return(None),
                     ListStoresCall(StoreName))

\* store["id"] goes to the instance and to the process; get_latest_model
\* enters get_models with no argument
LoadStore(store) ==
    LET slf == [self EXCEPT !.store_id = Some(store.val.id)]
        sid == get_store_id(slf, None)
    IN  /\ self' = slf
        /\ globals' = [globals EXCEPT !.store_id = Some(store.val.id)]
        /\ IF sid.kind = "raise"
           THEN Raises(sid.exc) /\ pg' = pg
           ELSE /\ pc' = "load_get_models"
                /\ ret' = None
                /\ pg' = Some(GetModelsCall(sid.value))

\* one iteration of list_stores; once the list is complete ensure_store
\* takes its first store or goes on to create one
LoadGetStoreStep ==
    /\ pc = "load_get_store"
    /\ \E o \in Serve(server, PaginateRequest(pg[1])) :
          LET r == PaginateOnResponse(pg[1], o.response) IN
          /\ Exchange(PaginateRequest(pg[1]), o)
          /\ CASE r.outcome = "loop" ->
                    /\ pc' = "load_get_store" /\ ret' = None
                    /\ pg' = Some(r.pg)
                    /\ UNCHANGED <<self, globals>>
               [] r.outcome = "raise" ->
                    /\ Raises(r.exc)
                    /\ pg' = Some(r.pg)
                    /\ UNCHANGED <<self, globals>>
               [] OTHER ->
                    IF r.pg.results # <<>>
                    THEN LoadStore(r.pg.results[1])
                    ELSE /\ pc' = "load_create_store" /\ ret' = None
                         /\ pg' = Some(r.pg)
                         /\ UNCHANGED <<self, globals>>
    /\ UNCHANGED <<wr, call, pureVars>>

\* ensure_store: create_store when the lookup found none
LoadCreateStoreStep ==
    /\ pc = "load_create_store"
    /\ \E o \in Serve(server, CreateStoreRequest(StoreName)) :
          LET store == JsonOrRaise(o.response) IN
          /\ Exchange(CreateStoreRequest(StoreName), o)
          /\ IF store.kind = "raise"
             THEN Raises(store.exc) /\ UNCHANGED <<pg, self, globals>>
             ELSE LoadStore(store.value)
    /\ UNCHANGED <<wr, call, pureVars>>

\* one iteration of get_models; once the list is complete its first model
\* goes to the instance and to the process
LoadGetModelsStep ==
    /\ pc = "load_get_models"
    /\ \E o \in Serve(server, PaginateRequest(pg[1])) :
          LET r == PaginateOnResponse(pg[1], o.response) IN
          /\ Exchange(PaginateRequest(pg[1]), o)
          /\ pg' = Some(r.pg)
          /\ CASE r.outcome = "loop" ->
                    /\ pc' = "load_get_models" /\ ret' = None
                    /\ UNCHANGED <<self, globals>>
               [] r.outcome = "raise" ->
                    Raises(r.exc) /\ UNCHANGED <<self, globals>>
               [] OTHER ->
                    IF r.pg.results = <<>>
                    THEN /\ Raises(ValueError(
                                "No authorization model found in store"))
                         /\ UNCHANGED <<self, globals>>
                    ELSE /\ self' = [self EXCEPT !.model_id =
                                        Some(r.pg.results[1].val.id)]
                         /\ globals' = [globals EXCEPT !.model_id =
                                           Some(r.pg.results[1].val.id)]
                         /\ pc' = "done"
                         /\ ret' = Some(Return(None))
    /\ UNCHANGED <<wr, call, pureVars>>

StoreNameArgs == { None, Some(""), Some(StoreName), Some("nowhere") }

\* get_store(store_name, store_id): by name through list_stores, by id in
\* one request
CallGetStore ==
    \E store_name \in StoreNameArgs, store_id \in StoreIdArgs :
        /\ Begin("get_store", store_id, None, store_name)
        /\ IF TruthyStr(store_name)
           THEN EnterPaginate("get_store", Return(None),
                              ListStoresCall(store_name[1]))
           ELSE \E sid \in {get_store_id(self, store_id)} :
                   OneRequest("get_store", sid, GetStoreRequest(sid.value))

GetStoreStep == PaginatedStep("get_store")

DeleteStore ==
    \E store_id \in StoreIdArgs :
        /\ Begin("delete_store", store_id, None, <<>>)
        /\ \E sid \in {get_store_id(self, store_id)} :
              OneRequest("delete_store", sid,
                         DeleteStoreRequest(sid.value))

CallGetModels ==
    \E store_id \in StoreIdArgs :
        /\ Begin("get_models", store_id, None, <<>>)
        /\ \E sid \in {get_store_id(self, store_id)} :
              EnterPaginate("get_models", sid, GetModelsCall(sid.value))

GetModelsStep == PaginatedStep("get_models")

GetModel ==
    \E model_id \in ModelIdArgs, store_id \in StoreIdArgs :
        /\ Begin("get_model", store_id, model_id, <<>>)
        /\ \E ids \in {ResolveIds(self, store_id, model_id)} :
              OneRequest("get_model", ids, GetModelRequest(ids.value))

CreateModel ==
    \E schema \in Schemas, store_id \in StoreIdArgs :
        /\ Begin("create_model", store_id, None, schema)
        /\ \E sid \in {get_store_id(self, store_id)} :
              OneRequest("create_model", sid,
                         CreateModelRequest(sid.value, schema))

CallGetLatestModel ==
    \E store_id \in StoreIdArgs :
        /\ Begin("get_latest_model", store_id, None, <<>>)
        /\ \E sid \in {get_store_id(self, store_id)} :
              EnterPaginate("get_latest_model", sid,
                            GetModelsCall(sid.value))

GetLatestModelStep == PaginatedStep("get_latest_model")

\* the tuple lists of the calls of SpecClient
ShortInputs == ListsUpTo(SmallKeys, 1)

ClientWriteTuples == WriteTuplesOf(ShortInputs)

ClientDeleteTuples == DeleteTuplesOf(ShortInputs)

\* user, relation, object arguments: omitted, empty, or the one value
FieldArgs == { None, Some(0), Some(1) }

\* read_tuples: the dict of the truthy arguments
ReadFilter(user, relation, object) ==
    LET given == { f \in {"user", "relation", "object"} :
                      Truthy(CASE f = "user" -> user
                               [] f = "relation" -> relation
                               [] OTHER -> object) }
    IN  [f \in given |-> (CASE f = "user" -> user
                            [] f = "relation" -> relation
                            [] OTHER -> object)[1]]

CallReadTuples ==
    \E user \in FieldArgs, relation \in {None, Some(1)},
       object \in {None, Some(1)} :
        /\ Begin("read_tuples", None, None, <<user, relation, object>>)
        /\ \E sid \in {get_store_id(self, None)} :
              EnterPaginate("read_tuples", sid,
                  ReadTuplesCall(sid.value,
                                 ReadFilter(user, relation, object)))

ReadTuplesStep == PaginatedStep("read_tuples")

CheckTuple ==
    \E user \in {1, 2}, store_id \in StoreIdArgs, model_id \in ModelIdArgs :
        /\ Begin("check_tuple", store_id, model_id, <<user, 1, 1>>)
        /\ \E ids \in {ResolveIds(self, store_id, model_id)} :
              OneRequest("check_tuple", ids,
                         CheckRequest(ids.value, user, 1, 1))

IsAllowed ==
    \E user \in {1, 2}, store_id \in StoreIdArgs, model_id \in ModelIdArgs :
        /\ Begin("is_allowed", store_id, model_id, <<user, 1, 1>>)
        /\ \E ids \in {ResolveIds(self, store_id, model_id)} :
              OneRequest("is_allowed", ids,
                         CheckRequest(ids.value, user, 1, 1))

CallListObjects ==
    \E store_id \in StoreIdArgs, model_id \in ModelIdArgs,
       ids_only \in BOOLEAN :
        /\ call' = Some([op |-> "list_objects", store_id |-> store_id,
                         model_id |-> model_id, args |-> <<1, 1, "doc">>,
                         ids_only |-> ids_only, before |-> server.tuples,
                  server |-> server, globals |-> globals])
        /\ \E ids \in {ResolveIds(self, store_id, model_id)} :
              EnterPaginate("list_objects", ids,
                            ListObjectsCall(ids.value, Some(1), Some(1),
                                            Some("doc")))

ListObjectsStep == PaginatedStep("list_objects")

\* the object arguments of list_users: "doc:1", "doc:1:x", "doc"
ObjectArgs == { <<"doc", "1">>, <<"doc", "1", "x">>, <<"doc">> }

\* list_users: the identifiers resolved, then
\* `object_id, object_type = object.split(":", 1)`
CallListUsers ==
    \E object \in ObjectArgs, store_id \in StoreIdArgs,
       model_id \in ModelIdArgs, ids_only \in BOOLEAN :
        /\ call' = Some([op |-> "list_users", store_id |-> store_id,
                         model_id |-> model_id, args |-> <<object, 1>>,
                         ids_only |-> ids_only, before |-> server.tuples,
                  server |-> server, globals |-> globals])
        /\ \E ids \in {ResolveIds(self, store_id, model_id)} :
              EnterPaginate("list_users",
                  IF ids.kind = "return" /\ Len(object) < 2
                  THEN Raise(ValueError("unpack")) ELSE ids,
                  ListUsersCall(ids.value, <<object[1]>>, Tail(object), 1))

ListUsersStep == PaginatedStep("list_users")

\* the names the service's engine answers list queries with
NameLists ==
    { << <<"doc", "1">>, <<"user", "2">> >>, << <<"doc", "1", "x">> >> }

ClientServers ==
    { [stores |-> <<>>, models |-> <<>>, tuples |-> <<>>, next |-> 1,
       page_size |-> 1, names |-> <<>>] }
    \cup
    { [stores |-> <<[id |-> 1, name |-> StoreName],
                    [id |-> 2, name |-> "other"]>>,
       models |-> <<[id |-> 5, store_id |-> 1, schema |-> 2],
                    [id |-> 4, store_id |-> 1, schema |-> 1],
                    [id |-> 3, store_id |-> 2, schema |-> 1]>>,
       tuples |-> StoredKeys(1, 1, 2) \o StoredKeys(2, 2, 2),
       next |-> 6, page_size |-> ps, names |-> ns] :
        ps \in {1, 100}, ns \in NameLists }

InitClient ==
    /\ PureIdle
    /\ CallIdle
    /\ self = NoIds
    /\ globals = NoIds
    /\ server \in ClientServers

NextClient ==
    \/ Construct
    \/ Returns
    \/ CallLoad
    \/ LoadGetStoreStep
    \/ LoadCreateStoreStep
    \/ LoadGetModelsStep
    \/ CallGetStore
    \/ GetStoreStep
    \/ DeleteStore
    \/ CallGetModels
    \/ GetModelsStep
    \/ GetModel
    \/ CreateModel
    \/ CallGetLatestModel
    \/ GetLatestModelStep
    \/ ClientWriteTuples
    \/ ClientDeleteTuples
    \/ WriteTuplesStep
    \/ DeleteTuplesStep
    \/ CallReadTuples
    \/ ReadTuplesStep
    \/ CheckTuple
    \/ IsAllowed
    \/ CallListObjects
    \/ ListObjectsStep
    \/ CallListUsers
    \/ ListUsersStep

SpecClient == InitClient /\ [][NextClient]_vars

(***************************************************************************)
(* SpecRetry: SpecWriter with the caller submitting the same call of       *)
(* write_tuples or delete_tuples again once it has ended, with an error or *)
(* not (__main__ writes the same tuples twice).                            *)
(***************************************************************************)
\* the most submissions of one call
MaxAttempts == 2

\* the submission the call in progress is
Attempt == IF "attempt" \in DOMAIN call[1] THEN call[1].attempt ELSE 1

\* the caller submits the call that ended once more, same arguments (a
\* call with the default flags and no identifier argument, as in __main__)
Resubmit ==
    /\ pc = "done"
    /\ Attempt < MaxAttempts
    /\ call[1].tolerant
    /\ call[1].store_id = None
    /\ call[1].model_id = None
    /\ \E e \in {WriterEnter(self,
                             IF call[1].op = "write_tuples" THEN "writes"
                             ELSE "deletes",
                             call[1].tuples, call[1].store_id,
                             call[1].model_id, call[1].tolerant)} :
          /\ wr' = e.wr
          /\ pc' = IF e.outcome = "loop" THEN call[1].op ELSE "done"
          /\ ret' = CASE e.outcome = "loop" -> None
                      [] e.outcome = "raise" -> Some(Raise(e.exc))
                      [] OTHER -> Some(Return(None))
    /\ call' = Some([op |-> call[1].op, tuples |-> call[1].tuples,
                     store_id |-> call[1].store_id,
                     model_id |-> call[1].model_id,
                     tolerant |-> call[1].tolerant,
                     before |-> call[1].before,
                     attempt |-> Attempt + 1,
                     last |-> [ret |-> ret[1], sent |-> Len(log)]])
    /\ log' = <<>>
    /\ served' = <<>>
    /\ UNCHANGED <<pg, pureVars, envVars>>

NextRetry == NextWriter \/ Resubmit

SpecRetry == InitWriter /\ [][NextRetry]_vars

(***************************************************************************)
(* Concurrent calls.  The caller may run several coroutines on the event   *)
(* loop; each runs until its next await, which is always the await of an   *)
(* HTTP response.  In the specifications of this part pc, pg, ret, self    *)
(* and served are functions of the task: served[p] is the response task p  *)
(* is about to resume with, and the log holds every exchange with its task *)
(* ([task, request, response]).  A step is either the service answering    *)
(* the request a task awaits, or a task resuming with its response and     *)
(* running to its next request or to its end.                              *)
(***************************************************************************)
\* the most tasks of a specification
MaxTasks == 2

Tasks == 1..MaxTasks

\* no task has started
TasksIdle ==
    /\ pc = [p \in Tasks |-> "idle"]
    /\ pg = [p \in Tasks |-> None]
    /\ ret = [p \in Tasks |-> None]
    /\ served = [p \in Tasks |-> None]
    /\ call = [p \in Tasks |-> None]
    /\ self = [p \in Tasks |-> NoIds]
    /\ wr = None
    /\ log = <<>>

\* the request task p awaits the response of
TaskRequest(p) ==
    IF pc[p] \in {"create_store", "load_create_store"}
    THEN CreateStoreRequest(StoreName)
    ELSE PaginateRequest(pg[p][1])

\* the service answers the request task p awaits
TaskServe(p) ==
    /\ pc[p] \notin {"idle", "done"}
    /\ served[p] = None
    /\ \E o \in Serve(server, TaskRequest(p)) :
          /\ served' = [served EXCEPT ![p] = Some(o.response)]
          /\ server' = o.server
          /\ log' = Append(log, [task |-> p, request |-> TaskRequest(p),
                                 response |-> o.response])
    /\ UNCHANGED <<pc, pg, wr, ret, call, pureVars, self, globals>>

\* task p ends with the result
TaskEnds(p, result) ==
    /\ pc' = [pc EXCEPT ![p] = "done"]
    /\ ret' = [ret EXCEPT ![p] = Some(result)]

\* task p goes on to its next request
TaskGoes(p, there) ==
    /\ pc' = [pc EXCEPT ![p] = there]
    /\ ret' = ret

(***************************************************************************)
(* SpecEnsure: tasks that call ensure_store for the configured name        *)
(* concurrently, on a service without stores.  SpecEnsureSeq: the same     *)
(* calls one after another, on a service with or without the store.        *)
(***************************************************************************)
\* ensure_store up to the request of list_stores
EnsureStore(p) ==
    /\ pc[p] = "idle"
    /\ pc' = [pc EXCEPT ![p] = "get_store"]
    /\ pg' = [pg EXCEPT ![p] = Some(ListStoresCall(StoreName))]
    /\ call' = [call EXCEPT ![p] = Some([op |-> "ensure_store"])]
    /\ UNCHANGED <<wr, ret, log, served, pureVars, envVars>>

\* the same when no other call is in progress
EnsureStoreAlone(p) ==
    /\ \A q \in Tasks : pc[q] \in {"idle", "done"}
    /\ EnsureStore(p)

\* get_store resumes with a page of list_stores; once the list is complete
\* ensure_store returns its first store or goes on to create one
EnsureGetStoreResume(p) ==
    /\ pc[p] = "get_store"
    /\ served[p] # None
    /\ LET r     == PaginateOnResponse(pg[p][1], served[p][1])
           store == FirstOrNone(r.pg.results).value
       IN  /\ pg' = [pg EXCEPT ![p] = Some(r.pg)]
           /\ CASE r.outcome = "loop" -> TaskGoes(p, "get_store")
                [] r.outcome = "raise" -> TaskEnds(p, Raise(r.exc))
                [] OTHER ->
                     IF store = None THEN TaskGoes(p, "create_store")
                     ELSE TaskEnds(p, Return(store))
    /\ served' = [served EXCEPT ![p] = None]
    /\ UNCHANGED <<wr, call, log, pureVars, envVars>>

\* create_store resumes with its response; ensure_store returns the store
EnsureCreateStoreResume(p) ==
    /\ pc[p] = "create_store"
    /\ served[p] # None
    /\ TaskEnds(p, JsonOrRaise(served[p][1]))
    /\ served' = [served EXCEPT ![p] = None]
    /\ UNCHANGED <<pg, wr, call, log, pureVars, envVars>>

\* a service without stores, one with the store, one with two stores of
\* the name; lists come one item a page
EnsureServers ==
    { [EmptyServer EXCEPT !.page_size = 1],
      [EmptyServer EXCEPT !.page_size = 1, !.next = 2,
           !.stores = <<[id |-> 1, name |-> StoreName]>>],
      [EmptyServer EXCEPT !.page_size = 1, !.next = 3,
           !.stores = <<[id |-> 2, name |-> StoreName],
                        [id |-> 1, name |-> StoreName]>>] }

InitEnsure ==
    /\ PureIdle
    /\ TasksIdle
    /\ globals = NoIds
    /\ server = [EmptyServer EXCEPT !.page_size = 1]

InitEnsureSeq ==
    /\ PureIdle
    /\ TasksIdle
    /\ globals = NoIds
    /\ server \in EnsureServers

NextEnsure ==
    \E p \in Tasks :
        \/ EnsureStore(p)
        \/ TaskServe(p)
        \/ EnsureGetStoreResume(p)
        \/ EnsureCreateStoreResume(p)

NextEnsureSeq ==
    \E p \in Tasks :
        \/ EnsureStoreAlone(p)
        \/ TaskServe(p)
        \/ EnsureGetStoreResume(p)
        \/ EnsureCreateStoreResume(p)

SpecEnsure == InitEnsure /\ [][NextEnsure]_vars

SpecEnsureSeq == InitEnsureSeq /\ [][NextEnsureSeq]_vars

(***************************************************************************)
(* SpecCache: tasks that call load_store_and_model, each on its own        *)
(* instance, in any interleaving, while the store may be deleted (it is    *)
(* then created again by the next load) and models may be published to the *)
(* stores by other callers.                                                *)
(***************************************************************************)
\* load_store_and_model up to the request of list_stores
LoadCall(p) ==
    /\ pc[p] = "idle"
    /\ pc' = [pc EXCEPT ![p] = "load_get_store"]
    /\ pg' = [pg EXCEPT ![p] = Some(ListStoresCall(StoreName))]
    /\ call' = [call EXCEPT ![p] = Some([op |-> "load_store_and_model"])]
    /\ UNCHANGED <<wr, ret, log, served, pureVars, envVars>>

\* store["id"] goes to the instance of task p and to the process;
\* get_latest_model enters get_models with no argument
TaskLoadStore(p, store) ==
    LET slf == [self[p] EXCEPT !.store_id = Some(store.val.id)]
        sid == get_store_id(slf, None)
    IN  /\ self' = [self EXCEPT ![p] = slf]
        /\ globals' = [globals EXCEPT !.store_id = Some(store.val.id)]
        /\ IF sid.kind = "raise"
           THEN TaskEnds(p, Raise(sid.exc)) /\ pg' = pg
           ELSE /\ TaskGoes(p, "load_get_models")
                /\ pg' = [pg EXCEPT ![p] = Some(GetModelsCall(sid.value))]

\* ensure_store resumes with a page of list_stores
LoadGetStoreResume(p) ==
    /\ pc[p] = "load_get_store"
    /\ served[p] # None
    /\ LET r     == PaginateOnResponse(pg[p][1], served[p][1])
           store == FirstOrNone(r.pg.results).value
       IN  CASE r.outcome = "loop" ->
                  /\ TaskGoes(p, "load_get_store")
                  /\ pg' = [pg EXCEPT ![p] = Some(r.pg)]
                  /\ UNCHANGED <<self, globals>>
             [] r.outcome = "raise" ->
                  /\ TaskEnds(p, Raise(r.exc))
                  /\ pg' = [pg EXCEPT ![p] = Some(r.pg)]
                  /\ UNCHANGED <<self, globals>>
             [] OTHER ->
                  IF store = None
                  THEN /\ TaskGoes(p, "load_create_store")
                       /\ pg' = [pg EXCEPT ![p] = Some(r.pg)]
                       /\ UNCHANGED <<self, globals>>
                  ELSE TaskLoadStore(p, store)
    /\ served' = [served EXCEPT ![p] = None]
    /\ UNCHANGED <<wr, call, log, pureVars, server>>

\* ensure_store resumes with the response of create_store
LoadCreateStoreResume(p) ==
    /\ pc[p] = "load_create_store"
    /\ served[p] # None
    /\ LET store == JsonOrRaise(served[p][1]) IN
       IF store.kind = "raise"
       THEN TaskEnds(p, store) /\ UNCHANGED <<pg, self, globals>>
       ELSE TaskLoadStore(p, store.value)
    /\ served' = [served EXCEPT ![p] = None]
    /\ UNCHANGED <<wr, call, log, pureVars, server>>

\* get_latest_model resumes with a page of get_models; once the list is
\* complete its first model goes to the instance and to the process
LoadGetModelsResume(p) ==
    /\ pc[p] = "load_get_models"
    /\ served[p] # None
    /\ LET r == PaginateOnResponse(pg[p][1], served[p][1])
           latest_model == FirstOrNone(r.pg.results).value
       IN  /\ pg' = [pg EXCEPT ![p] = Some(r.pg)]
           /\ CASE r.outcome = "loop" ->
                     /\ TaskGoes(p, "load_get_models")
                     /\ UNCHANGED <<self, globals>>
                [] r.outcome = "raise" ->
                     /\ TaskEnds(p, Raise(r.exc))
                     /\ UNCHANGED <<self, globals>>
                [] OTHER ->
                     IF latest_model = None
                     THEN /\ TaskEnds(p, Raise(ValueError(
                                 "No authorization model found in store")))
                          /\ UNCHANGED <<self, globals>>
                     ELSE /\ self' = [self EXCEPT ![p].model_id =
                                         Some(latest_model.val.id)]
                          /\ globals' = [globals EXCEPT !.model_id =
                                            Some(latest_model.val.id)]
                          /\ TaskEnds(p, Return(None))
    /\ served' = [served EXCEPT ![p] = None]
    /\ UNCHANGED <<wr, call, log, pureVars, server>>

\* another caller's request, served at once: it is in the log as task 0's
Elsewhere(request) ==
    /\ \E o \in Serve(server, request) :
          /\ IsSuccess(o.response.status_code)
          /\ server' = o.server
          /\ log' = Append(log, [task |-> 0, request |-> request,
                                 response |-> o.response])
    /\ UNCHANGED <<pc, pg, wr, ret, call, served, pureVars, self, globals>>

\* delete_store(store_id) on one of the stores
DeleteStoreElsewhere ==
    \E i \in 1..Len(server.stores) :
        Elsewhere(DeleteStoreRequest(server.stores[i].id))

\* create_model(schema, store_id) on one of the stores
CreateModelElsewhere ==
    \E i \in 1..Len(server.stores), schema \in Schemas :
        Elsewhere(CreateModelRequest(server.stores[i].id, schema))

\* a service without stores, and one with the store and a model of it
CacheServers ==
    { EmptyServer,
      [EmptyServer EXCEPT !.next = 3,
           !.stores = <<[id |-> 1, name |-> StoreName]>>,
           !.models = <<[id |-> 2, store_id |-> 1,
                         schema |-> [schema_version |-> "1.1"]]>>] }

InitCache ==
    /\ PureIdle
    /\ TasksIdle
    /\ globals = NoIds
    /\ server \in CacheServers

NextCache ==
    \/ \E p \in Tasks :
          \/ LoadCall(p)
          \/ TaskServe(p)
          \/ LoadGetStoreResume(p)
          \/ LoadCreateStoreResume(p)
          \/ LoadGetModelsResume(p)
    \/ DeleteStoreElsewhere
    \/ CreateModelElsewhere

SpecCache == InitCache /\ [][NextCache]_vars

(***************************************************************************)
(* Claims about dedupe and batcherize (checked under SpecPure).            *)
(***************************************************************************)
\* the elements of l that are the first occurrence of their key, up to the
\* structural equality of dicts, in the order of l
FirstOccurrences(l) ==
    LET first(p) == \A j \in 1..(p[1] - 1) : ~DictEq(l[j], p[2])
        kept == SelectSeq([i \in 1..Len(l) |-> <<i, l[i]>>], first)
    IN  [i \in 1..Len(kept) |-> kept[i][2]]

\* C3: for any input list of tuple keys, dedupe returns a list with no two
\* structurally equal elements (equal user, relation and object, whatever
\* the order of the fields), that keeps the first occurrence of each key in
\* first-seen order, contains every distinct key of the input, and is no
\* longer than the input.
C3_DedupeStructural ==
    deduped_list # None =>
        LET out == deduped_list[1] IN
        /\ \A i, j \in 1..Len(out) : i # j => ~DictEq(out[i], out[j])
        /\ out = FirstOccurrences(lst)
        /\ \A i \in 1..Len(lst) : \E j \in 1..Len(out) : DictEq(out[j], lst[i])
        /\ Len(out) <= Len(lst)

\* C4: for any list of length L and any limit N >= 1, batcherize produces
\* exactly ceil(L/N) chunks (none when L = 0), every chunk is non-empty and
\* has at most N elements, every chunk but the last has exactly N elements,
\* and the chunks concatenated in order are the input list.
C4_Batcherize ==
    chunks # None =>
        LET cs == chunks[1]
            L  == Len(lst)
        IN  /\ Len(cs) = (L + n - 1) \div n
            /\ \A c \in 1..Len(cs) : Len(cs[c]) >= 1 /\ Len(cs[c]) <= n
            /\ \A c \in 1..(Len(cs) - 1) : Len(cs[c]) = n
            /\ Concat(cs) = lst

\* C4 witness: a list split into a full chunk and a shorter last chunk
C4_Witness ==
    /\ chunks # None
    /\ Len(chunks[1]) = 2
    /\ n = 2
    /\ Len(chunks[1][2]) = 1

(***************************************************************************)
(* Claims about _paginate (checked under SpecPaginate).                    *)
(***************************************************************************)
\* a successful page whose item collection the contract of _paginate
\* defines: the array under the response key, or the body itself when the
\* call names no response key and the body is an array
GoodPage(response, response_key) ==
    /\ IsSuccess(response.status_code)
    /\ response.is_json
    /\ IF TruthyStr(response_key)
       THEN /\ response.data.kind = "dict"
            /\ response_key[1] \in DOMAIN response.data.val
       ELSE response.data.kind = "list"

PageItems(response, response_key) ==
    IF TruthyStr(response_key) THEN response.data.val[response_key[1]]
    ELSE response.data.elems

\* the continuation token a page carries (a bare array carries none)
PageToken(response) ==
    IF response.data.kind = "dict"
    THEN Get(response.data, "continuation_token") ELSE None

\* K successful pages, the first K-1 with a non-empty continuation token and
\* the last with a missing or empty one, K >= 1
ServedKPages(pages, response_key) ==
    /\ Len(pages) >= 1
    /\ \A j \in 1..Len(pages) : GoodPage(pages[j], response_key)
    /\ \A j \in 1..(Len(pages) - 1) : Truthy(PageToken(pages[j]))
    /\ ~Truthy(PageToken(pages[Len(pages)]))

AllPageItems(pages, response_key) ==
    Concat([j \in 1..Len(pages) |-> PageItems(pages[j], response_key)])

\* C1: when the server answers a call of _paginate with K >= 1 successful
\* pages, pages 1..K-1 with a non-empty continuation token and page K with a
\* missing or empty one, the call issues exactly K requests and returns the
\* concatenation of the K pages' items, pages and items in response order.
C1_PaginateConcat ==
    (pg # None /\ ServedKPages(served, pg[1].response_key)) =>
        /\ pc = "done"
        /\ Len(log) = Len(served)
        /\ ret = Some(Return(AllPageItems(served, pg[1].response_key)))

\* C1 restricted to the calls that name a response key (every call site of
\* the client does): there the statement holds.
C1_KeyedCalls ==
    (pg # None /\ TruthyStr(pg[1].response_key)) => C1_PaginateConcat

\* a keyed call that followed two tokens and returned three pages' items
C1_KeyedWitness ==
    /\ pg # None
    /\ TruthyStr(pg[1].response_key)
    /\ ServedKPages(served, pg[1].response_key)
    /\ Len(served) = 3
    /\ ret # None
    /\ ret[1].kind = "return"
    /\ Len(ret[1].value) = 4

\* C2: if page j of a paginated call has a non-2xx status, the call ends
\* with an error, returns no result list (the items of pages 1..j-1 are
\* dropped), and issues no request for a page after j.
C2_PaginateFailure ==
    \A j \in 1..Len(served) :
        ~IsSuccess(served[j].status_code) =>
            /\ j = Len(served)
            /\ Len(log) = j
            /\ pc = "done"
            /\ ret # None
            /\ ret[1].kind = "raise"

\* C2 witness: page 2 fails after page 1 delivered items
C2_Witness ==
    /\ Len(served) = 2
    /\ ~IsSuccess(served[2].status_code)
    /\ pg # None
    /\ pg[1].results # <<>>
    /\ ret # None
    /\ ret[1].kind = "raise"

(***************************************************************************)
(* Claims about write_tuples and delete_tuples (checked under SpecWriter). *)
(***************************************************************************)
\* the tuple keys a request of the writer carries
KeysOf(request) ==
    IF "writes" \in DOMAIN request.json[1]
    THEN request.json[1].writes.tuple_keys
    ELSE request.json[1].deletes.tuple_keys

Vals(keys) == { keys[i].val : i \in 1..Len(keys) }

\* the tuple keys of the first m requests of the log, as the service sees
\* them
SentVals(m) == UNION { Vals(KeysOf(log[i])) : i \in 1..m }

\* the writer's call in progress has sent the batches 1..Len(log) of its
\* loop, each as one request of its own kind, and nothing else
OnlyBatchRequests ==
    \A i \in 1..Len(log) :
        /\ KeysOf(log[i]) = wr[1].batches[i]
        /\ ("writes" \in DOMAIN log[i].json[1]) = (call[1].op = "write_tuples")
        /\ ("deletes" \in DOMAIN log[i].json[1])
               = (call[1].op = "delete_tuples")

\* the store's tuples are those of the call's start with the first m
\* batches applied, and the other stores' tuples are untouched
BatchesApplied(m) ==
    LET sid    == wr[1].store_id
        before == [server EXCEPT !.tuples = call[1].before]
    IN  /\ TupleSet(server, sid) =
              IF call[1].op = "write_tuples"
              THEN TupleSet(before, sid) \cup SentVals(m)
              ELSE TupleSet(before, sid) \ SentVals(m)
        /\ \A other \in {1, 2} \ {sid} :
              TupleSet(server, other) = TupleSet(before, other)

\* C5: write_tuples and delete_tuples send their chunks one after another,
\* chunk i+1 only after chunk i got a 2xx response; if chunk k fails the
\* operation ends with an error, chunks k+1.. are never sent and the effects
\* of chunks 1..k-1 stay applied (no compensating request).
C5_SequentialBatches ==
    wr # None =>
        /\ Len(log) = Len(served)
        /\ OnlyBatchRequests
        /\ \A i \in 1..(Len(log) - 1) : IsSuccess(served[i].status_code)
        /\ \A k \in 1..Len(served) :
              ~IsSuccess(served[k].status_code) =>
                  /\ k = Len(log)
                  /\ pc = "done"
                  /\ ret # None
                  /\ ret[1].kind = "raise"
                  /\ BatchesApplied(k - 1)

\* C5 witness: the second of three write batches fails, the first one is
\* in the store
C5_Witness ==
    /\ wr # None
    /\ call[1].op = "write_tuples"
    /\ Len(wr[1].batches) = 3
    /\ Len(served) = 2
    /\ ~IsSuccess(served[2].status_code)
    /\ pc = "done"
    /\ ret[1].kind = "raise"
    /\ call[1].before = <<>>
    /\ Cardinality(TupleSet(server, wr[1].store_id)) = BatchLimit

\* the k-th chunk of at most BatchLimit elements of l
Chunk(l, k) == SubSeq(l, (k - 1) * BatchLimit + 1, Min(k * BatchLimit, Len(l)))

\* C6: for a call of write_tuples (delete_tuples) whose input has D
\* structurally distinct tuple keys and whose requests all succeed, exactly
\* ceil(D/100) requests are issued, the k-th carries the k-th chunk of the
\* deduplicated list with the tolerance flag and the resolved model id, and
\* no tuple key is in more than one request; two identical keys give one
\* request with one key, 150 distinct keys two requests of 100 and 50 keys.
C6_RequestsOfACall ==
    (pc = "done" /\ wr # None /\ ret[1].kind = "return") =>
        LET distinct == FirstOccurrences(call[1].tuples)
            D        == Len(distinct)
            flag     == IF call[1].tolerant THEN "ignore" ELSE "error"
            mid      == Or(call[1].model_id, self.model_id)[1]
        IN  /\ D = Cardinality(Vals(call[1].tuples))
            /\ Len(log) = (D + BatchLimit - 1) \div BatchLimit
            /\ \A k \in 1..Len(log) :
                  /\ KeysOf(log[k]) = Chunk(distinct, k)
                  /\ log[k].json[1].authorization_model_id = mid
                  /\ IF call[1].op = "write_tuples"
                     THEN log[k].json[1].writes.on_duplicate = flag
                     ELSE log[k].json[1].deletes.on_missing = flag
            /\ \A j, k \in 1..Len(log) :
                  j # k => Vals(KeysOf(log[j])) \cap Vals(KeysOf(log[k])) = {}

(***************************************************************************)
(* Claims about the reconciliation pass (checked under SpecReconcile).     *)
(***************************************************************************)
\* the pass is over, it returned, and every request of it succeeded
PassSucceeded ==
    /\ call # None
    /\ call[1].op = "sync"
    /\ pc = "done"
    /\ ret[1].kind = "return"
    /\ \A i \in 1..Len(served) : IsSuccess(served[i].status_code)

\* the service at the start of the pass
ServerBefore == [server EXCEPT !.tuples = call[1].before]

\* C8: after a reconciliation pass in which every request succeeds (and
\* nobody else touches the store), the store's tuples are exactly the
\* distinct tuple keys of the desired seed: what was there and is not in the
\* seed is gone, every seed tuple is there.
C8_ReconcileResult ==
    PassSucceeded =>
        LET sid == self.store_id[1] IN
        /\ TupleSet(server, sid) = Vals(call[1].tuples)
        /\ (TupleSet(ServerBefore, sid) \ Vals(call[1].tuples))
               \cap TupleSet(server, sid) = {}

\* C8 witness: a pass that succeeded on a store that held a tuple outside
\* the seed, with a seed tuple the store did not hold
C8_Witness ==
    /\ PassSucceeded
    /\ TupleSet(ServerBefore, self.store_id[1]) \ Vals(call[1].tuples) # {}
    /\ Vals(call[1].tuples) \ TupleSet(ServerBefore, self.store_id[1]) # {}

\* the step of the pass a request belongs to
StepOf(request) ==
    LET ep == request.endpoint
        m  == Upper(request.method)
    IN  CASE Len(ep) = 1 /\ m = "GET" -> 1
          [] Len(ep) = 1 /\ m = "POST" -> 2
          [] Len(ep) = 3 /\ ep[3] = "authorization-models" /\ m = "POST" -> 3
          [] Len(ep) = 3 /\ ep[3] = "read" /\ m = "POST" -> 4
          [] Len(ep) = 3 /\ ep[3] = "write" /\ m = "POST"
               /\ "deletes" \in DOMAIN request.json[1] -> 5
          [] Len(ep) = 3 /\ ep[3] = "write" /\ m = "POST"
               /\ "writes" \in DOMAIN request.json[1] -> 6
          [] OTHER -> 0

\* the positions of the log whose request belongs to step k, in order
RequestsOf(k) ==
    LET is(i) == StepOf(log[i]) = k
    IN  SelectSeq([i \in 1..Len(log) |-> i], is)

\* the responses to the requests of step k, in order
AnswersOf(k) == [j \in 1..Len(RequestsOf(k)) |-> served[RequestsOf(k)[j]]]

\* the tuple keys the read returned, in order
ReadKeys ==
    LET all_tuples == AllPageItems(AnswersOf(4), Some("tuples"))
    IN  [i \in 1..Len(all_tuples) |-> all_tuples[i].key]

\* the tuple keys the delete requests carry, in order
DeletedKeys ==
    Concat([j \in 1..Len(RequestsOf(5)) |-> KeysOf(log[RequestsOf(5)[j]])])

\* C9: a reconciliation pass issues its requests in the order store lookup
\* by name (store creation only if the lookup returned no store), creation
\* of the model, all pages of the read, all delete batches, all write
\* batches; no delete before the last read page is received, no write before
\* the last delete batch succeeded; the deletes carry exactly the tuples the
\* read returned, missing-tolerant, the writes are duplicate-tolerant.
C9_ReconcileOrder ==
    (call # None /\ call[1].op = "sync") =>
        /\ Len(served) = Len(log)
        /\ \A i \in 1..Len(log) :
              /\ StepOf(log[i]) # 0
              /\ i > 1 => /\ StepOf(log[i - 1]) <= StepOf(log[i])
                          /\ IsSuccess(served[i - 1].status_code)
        /\ log # <<>> => StepOf(log[1]) = 1
        /\ \A i \in 1..Len(log) :
              StepOf(log[i]) = 1 => log[i].params.name = StoreName
        /\ Len(RequestsOf(2)) <= 1
        /\ RequestsOf(2) # <<>> =>
              /\ ServedKPages(AnswersOf(1), Some("stores"))
              /\ AllPageItems(AnswersOf(1), Some("stores")) = <<>>
        /\ Len(RequestsOf(3)) <= 1
        /\ (\E i \in 1..Len(log) : StepOf(log[i]) > 3) =>
              Len(RequestsOf(3)) = 1
        /\ (RequestsOf(3) # <<>> /\ RequestsOf(2) = <<>>) =>
              /\ ServedKPages(AnswersOf(1), Some("stores"))
              /\ AllPageItems(AnswersOf(1), Some("stores")) # <<>>
        /\ (\E i \in 1..Len(log) : StepOf(log[i]) > 4) =>
              /\ ServedKPages(AnswersOf(4), Some("tuples"))
              /\ Len(DeletedKeys) <= Len(ReadKeys)
              /\ DeletedKeys = SubSeq(ReadKeys, 1, Len(DeletedKeys))
        /\ (RequestsOf(6) # <<>> \/ (pc = "done" /\ ret[1].kind = "return"))
              => DeletedKeys = ReadKeys
        /\ \A i \in 1..Len(log) :
              /\ StepOf(log[i]) = 5 =>
                    log[i].json[1].deletes.on_missing = "ignore"
              /\ StepOf(log[i]) = 6 =>
                    log[i].json[1].writes.on_duplicate = "ignore"

\* C9 witness: a pass that created the store's model, read two pages or
\* more, sent two delete batches and two write batches, and returned
C9_Witness ==
    /\ PassSucceeded
    /\ Len(RequestsOf(4)) >= 2
    /\ Len(RequestsOf(5)) = 2
    /\ Len(RequestsOf(6)) = 2

(***************************************************************************)
(* Claims about the operations of FGAClient (checked under SpecClient).    *)
(***************************************************************************)
\* the operations that resolve a store id: all but the constructor, the
\* load, and get_store by name
NeedsStoreId(c) ==
    /\ c.op \notin {"__init__", "load_store_and_model"}
    /\ c.op = "get_store" => ~TruthyStr(c.args)

\* the operations that resolve a model id
NeedsModelId(c) ==
    c.op \in {"get_model", "write_tuples", "delete_tuples", "check_tuple",
              "is_allowed", "list_objects", "list_users"}

\* the model id a request names
ModelOf(request) ==
    IF Len(request.endpoint) = 4 THEN request.endpoint[4]
    ELSE request.json[1].authorization_model_id

\* the call ended with a ValueError of this message and sent nothing
ConfigurationError(message) ==
    /\ pc = "done"
    /\ ret = Some(Raise(ValueError(message)))
    /\ log = <<>>

\* C7: an operation that needs a store id or a model id uses the non-empty
\* identifier it is given; else the identifier configured on the instance
\* (for an instance constructed after a successful load: the loaded one);
\* with neither it fails with a configuration error (missing store id /
\* missing model id).
C7_IdentityResolution ==
    call # None =>
        LET c   == call[1]
            sid == Or(c.store_id, self.store_id)
            mid == Or(c.model_id, self.model_id)
        IN  /\ NeedsStoreId(c) =>
                  IF Truthy(sid)
                  THEN \A i \in 1..Len(log) : log[i].endpoint[2] = sid[1]
                  ELSE ConfigurationError("store_id must be provided")
            /\ (NeedsModelId(c) /\ Truthy(sid)) =>
                  IF Truthy(mid)
                  THEN \A i \in 1..Len(log) : ModelOf(log[i]) = mid[1]
                  ELSE ConfigurationError("model_id must be provided")
            /\ c.op = "__init__" =>
                  /\ self.store_id = globals.store_id
                  /\ self.model_id = globals.model_id
            /\ (c.op = "load_store_and_model" /\ pc = "done"
                  /\ ret[1].kind = "return") =>
                  /\ self.store_id = globals.store_id
                  /\ self.model_id = globals.model_id
                  /\ Truthy(globals.store_id)
                  /\ Truthy(globals.model_id)

\* C7 witness: on an instance that holds the loaded identifiers, a check
\* with no store id and the model id of another model got its answer from
\* the loaded store under the given model
C7_Witness ==
    /\ call # None
    /\ call[1].op = "check_tuple"
    /\ call[1].store_id = None
    /\ Truthy(call[1].model_id)
    /\ Truthy(globals.model_id)
    /\ self = NewClient(globals)
    /\ call[1].model_id # self.model_id
    /\ pc = "done"
    /\ ret[1].kind = "return"
    /\ Len(log) = 1
    /\ log[1].endpoint[2] = globals.store_id[1]

\* the request is the one get_store sends when called by id
GetStoreById(request) ==
    /\ call[1].op = "get_store"
    /\ Upper(request.method) = "GET"
    /\ Len(request.endpoint) = 2

\* C10: get_store by id returns null and raises nothing when the server
\* answers 404; every other non-2xx answer to that call, and a non-2xx
\* answer to any other request of the client, ends the operation with an
\* error and never with a normal return value.
C10_NotFoundIsNull ==
    call # None =>
        \A i \in 1..Len(served) :
            ~IsSuccess(served[i].status_code) =>
                /\ i = Len(served)
                /\ pc = "done"
                /\ IF GetStoreById(log[i]) /\ served[i].status_code = 404
                   THEN ret = Some(Return(None))
                   ELSE ret[1].kind = "raise"

\* C10 witness: get_store by id ended with null on a 404
C10_Witness ==
    /\ call # None
    /\ Len(log) = 1
    /\ GetStoreById(log[1])
    /\ served[1].status_code = 404
    /\ pc = "done"
    /\ ret = Some(Return(None))

(***************************************************************************)
(* Claims about the process-wide identifiers (checked under SpecClient).   *)
(***************************************************************************)
\* the stores of the configured name, in the order the service lists them
NamedStores ==
    LET named(st) == st.name = StoreName IN SelectSeq(server.stores, named)

\* the process-wide identifiers are those of the first store of the
\* configured name and of the first model the service lists for it
CachePointsAtLatest ==
    /\ NamedStores # <<>>
    /\ globals.store_id = Some(NamedStores[1].id)
    /\ ModelsOf(server, NamedStores[1].id) # <<>>
    /\ globals.model_id = Some(ModelsOf(server, NamedStores[1].id)[1].id)

\* C11: after load_store_and_model completed successfully the process-wide
\* store id is that of the store found or created under the configured name
\* and the process-wide model id that of the first model listed for it, and
\* an instance constructed afterwards resolves its store id and model id to
\* these two values.
C11_LoadPublishes ==
    call # None =>
        /\ (call[1].op = "load_store_and_model" /\ pc = "done"
              /\ ret[1].kind = "return") => CachePointsAtLatest
        /\ (call[1].op = "__init__" /\ Truthy(globals.model_id)) =>
              /\ CachePointsAtLatest
              /\ get_store_id(self, None) = Return(globals.store_id[1])
              /\ get_model_id(self, None) = Return(globals.model_id[1])

\* C11 witness: an instance constructed after a successful load
C11_Witness ==
    /\ call # None
    /\ call[1].op = "__init__"
    /\ pc = "done"
    /\ Truthy(globals.store_id)
    /\ Truthy(globals.model_id)
    /\ self.model_id = globals.model_id

(***************************************************************************)
(* Claims about the errors of _paginate (checked under SpecPaginate).      *)
(***************************************************************************)
\* C12: every non-2xx answer inside a paginated call surfaces an error that
\* includes the endpoint of the failed request, its status code and its
\* response body.
C12_FailureDescribed ==
    \A j \in 1..Len(served) :
        ~IsSuccess(served[j].status_code) =>
            /\ ret # None
            /\ ret[1].kind = "raise"
            /\ {"endpoint", "status_code", "body"} \subseteq DOMAIN ret[1].exc
            /\ ret[1].exc.endpoint = log[j].endpoint
            /\ ret[1].exc.status_code = served[j].status_code
            /\ ret[1].exc.body = served[j].data

(***************************************************************************)
(* Claims about the models of a reconciliation pass (checked under         *)
(* SpecReconcile).                                                         *)
(***************************************************************************)
\* the create-model request of the pass was answered with a 2xx status
ModelPublished ==
    /\ RequestsOf(3) # <<>>
    /\ IsSuccess(AnswersOf(3)[1].status_code)

\* C13: a reconciliation pass that gets past the store step creates
\* exactly one new authorization model in the store (one create-model
\* request, a new model once it is answered 2xx), also when the schema is
\* that of the store's latest model; no request of the pass modifies or
\* deletes a model: the models of the start are all there with their id,
\* store and schema, and the pass adds one.
C13_OneNewModel ==
    (call # None /\ call[1].op = "sync") =>
        LET old == call[1].models
            now == server.models
        IN  /\ Len(now) = Len(old) + (IF ModelPublished THEN 1 ELSE 0)
            /\ SubSeq(now, Len(now) - Len(old) + 1, Len(now)) = old
            /\ ModelPublished =>
                  /\ \A i \in 1..Len(old) : old[i].id # now[1].id
                  /\ now[1].store_id = self.store_id[1]
                  /\ now[1].schema = call[1].schema
            /\ (\E i \in 1..Len(log) : StepOf(log[i]) > 3) => ModelPublished
            /\ (pc = "done" /\ ret[1].kind = "return") => ModelPublished
            /\ \A i \in 1..Len(log) :
                  /\ Upper(log[i].method) \in {"GET", "POST"}
                  /\ Len(log[i].endpoint) # 4
                  /\ (Len(log[i].endpoint) = 3
                        /\ log[i].endpoint[3] = "authorization-models") =>
                        StepOf(log[i]) = 3

\* C13 witness: a pass that succeeded on a store whose latest model had the
\* schema of the pass, and the store has one model more
C13_Witness ==
    /\ PassSucceeded
    /\ call[1].models # <<>>
    /\ call[1].models[1].schema = call[1].schema
    /\ call[1].models[1].store_id = self.store_id[1]
    /\ Len(ModelsOf(server, self.store_id[1])) = 2

(***************************************************************************)
(* Claims about find-or-create of the store (C14 under SpecEnsureSeq, C20  *)
(* under SpecEnsure).                                                      *)
(***************************************************************************)
\* the positions of the log that hold a create-store request
StoreCreations ==
    { i \in 1..Len(log) : /\ Upper(log[i].request.method) = "POST"
                          /\ Len(log[i].request.endpoint) = 1 }

\* the positions of the log that hold an exchange of task p
ExchangesOf(p) == { i \in 1..Len(log) : log[i].task = p }

\* the tasks whose call returned a store
Returned ==
    { p \in Tasks : pc[p] = "done" /\ ret[p][1].kind = "return" }

\* the lookup of task p before position i was answered with 2xx pages that
\* hold no store
LookupFoundNone(p, i) ==
    /\ \E j \in ExchangesOf(p) : j < i
    /\ \A j \in ExchangesOf(p) :
          j < i => /\ IsSuccess(log[j].response.status_code)
                   /\ Get(log[j].response.data, "stores") = Some(<<>>)

\* C14: for ensure_store calls for one name, each completing before the
\* next starts, on a service nobody else modifies: a create-store request
\* is only issued by a call whose lookup returned no store, at most one
\* store is created, no create-store request is issued once a call has
\* returned, and every call that returns returns the same store.
C14_EnsureStoreIdempotent ==
    /\ \A i \in StoreCreations : LookupFoundNone(log[i].task, i)
    /\ Cardinality({ i \in StoreCreations :
                       IsSuccess(log[i].response.status_code) }) <= 1
    /\ \A p \in Returned, i \in StoreCreations :
          log[i].task # p => \E j \in ExchangesOf(p) : j > i
    /\ \A p \in Returned, q \in Returned :
          ret[p][1].value = ret[q][1].value

\* C14 witness: two calls have returned, the first created the store, the
\* second found it
C14_Witness ==
    /\ Returned = Tasks
    /\ Cardinality(StoreCreations) = 1
    /\ Len(server.stores) = 1

\* C20: for concurrent find-or-create calls for one name on an initially
\* empty service, at most one store of that name exists afterwards and all
\* calls return the same store id.
C20_ConcurrentEnsureStore ==
    /\ Len(NamedStores) <= 1
    /\ \A p \in Returned, q \in Returned :
          ret[p][1].value.val.id = ret[q][1].value.val.id

(***************************************************************************)
(* Claims about re-submission (checked under SpecRetry).                   *)
(***************************************************************************)
\* the store holds no tuple twice
NoTupleTwice(sid) ==
    LET of(t) == t.store_id = sid IN
    Cardinality(TupleSet(server, sid)) = Len(SelectSeq(server.tuples, of))

\* C15: with the default tolerance flags, submitting write_tuples again
\* with the same input, after a success or after a failure at chunk k, is
\* never refused for a duplicate and, once it returns, leaves the store with
\* each tuple once, as one successful call does; submitting delete_tuples
\* again is never refused for a missing tuple and leaves the tuples absent.
C15_ResubmitSafe ==
    (wr # None /\ call[1].tolerant /\ Attempt > 1) =>
        LET sid    == wr[1].store_id
            before == [server EXCEPT !.tuples = call[1].before]
        IN  /\ pc # "done" =>
                  WriteAccepted(server, sid, WriterRequest(wr[1]).json[1])
            /\ NoTupleTwice(sid)
            /\ (pc = "done" /\ ret[1].kind = "return") =>
                  TupleSet(server, sid) =
                      IF call[1].op = "write_tuples"
                      THEN TupleSet(before, sid) \cup Vals(call[1].tuples)
                      ELSE TupleSet(before, sid) \ Vals(call[1].tuples)

\* C15 witness: write_tuples failed at its second chunk, was submitted
\* again and returned
C15_Witness ==
    /\ wr # None
    /\ call[1].op = "write_tuples"
    /\ call[1].tolerant
    /\ Attempt = 2
    /\ call[1].last.ret.kind = "raise"
    /\ call[1].last.sent = 2
    /\ pc = "done"
    /\ ret[1].kind = "return"
    /\ Len(log) >= 2

(***************************************************************************)
(* Claims about identifiers of the form type:id (checked under             *)
(* SpecClient).                                                            *)
(***************************************************************************)
\* the response key of the list operation in progress
NamesKey == IF call[1].op = "list_objects" THEN "objects" ELSE "users"

\* the part of each identifier after its first colon
AfterFirstColon(xs) == [i \in 1..Len(xs) |-> Tail(xs[i])]

\* C16: with ids_only, list_objects and list_users return for each
\* identifier exactly the part after its first colon (also when that part
\* holds a colon), and list_users sends the part of its object argument
\* before the first colon as the object's type and the rest as its id.
C16_TypeIdConvention ==
    (call # None /\ call[1].op \in {"list_objects", "list_users"}) =>
        /\ (call[1].op = "list_users" /\ Len(call[1].args[1]) >= 2) =>
              \A i \in 1..Len(log) :
                  log[i].json[1].object =
                      [type |-> <<call[1].args[1][1]>>,
                       id |-> Tail(call[1].args[1])]
        /\ (call[1].ids_only /\ pc = "done"
              /\ ServedKPages(served, Some(NamesKey))) =>
              ret = Some(Return(AfterFirstColon(
                             AllPageItems(served, Some(NamesKey)))))

(***************************************************************************)
(* Claims about the continuation token (checked under SpecPaginate).       *)
(***************************************************************************)
\* the query parameters and the body the caller passed to _paginate
CallerParams == IF call[1].params = None THEN EmptyDict ELSE call[1].params[1]

CallerBody == IF call[1].body = None THEN EmptyDict ELSE call[1].body[1]

\* the request carries the token tok the way the method asks for, next to
\* the caller's parameters and body fields
CarriesToken(request, tok) ==
    IF Upper(call[1].method) = "GET"
    THEN /\ request.params = DictSet(CallerParams, "continuation_token", tok)
         /\ request.json = call[1].body
    ELSE /\ request.params = CallerParams
         /\ request.json = Some(DictSet(CallerBody, "continuation_token",
                                        tok))

\* C17: the first request of a call of _paginate carries no continuation
\* token; request i+1 carries exactly the token of response i and no older
\* one, as a query parameter when the method is GET and as a field of the
\* body otherwise; every request carries the caller's query parameters and
\* body fields unchanged.
C17_TokenProtocol ==
    call # None =>
        \A i \in 1..Len(log) :
            /\ log[i].method = call[1].method
            /\ IF i = 1
               THEN /\ log[1].params = CallerParams
                    /\ log[1].json = call[1].body
               ELSE /\ Truthy(PageToken(served[i - 1]))
                    /\ CarriesToken(log[i], PageToken(served[i - 1])[1])

\* C17 witness: a POST call with a body sent three requests, the third
\* with the token of the second page, which is not that of the first
C17_Witness ==
    /\ call # None
    /\ call[1].method = "POST"
    /\ call[1].body # None
    /\ Len(log) = 3
    /\ PageToken(served[1]) # PageToken(served[2])
    /\ log[3].json[1].continuation_token = PageToken(served[2])[1]

(***************************************************************************)
(* Claims about configuration errors (checked under SpecClient).           *)
(***************************************************************************)
\* the operation in progress ended with a missing store id or model id
EndedWithConfigurationError ==
    /\ call # None
    /\ pc = "done"
    /\ ret[1].kind = "raise"
    /\ ret[1].exc \in { ValueError("store_id must be provided"),
                        ValueError("model_id must be provided") }

\* C19: an operation that fails with a configuration error (missing store
\* id or model id) has issued no request: the stores, models and tuples of
\* the service and the process-wide identifiers are as they were when it
\* was called.
C19_ConfigurationErrorFrame ==
    EndedWithConfigurationError =>
        /\ log = <<>>
        /\ served = <<>>
        /\ server = call[1].server
        /\ globals = call[1].globals

\* C19 witness: get_model, given the id of a store that exists and no model
\* id, failed with the missing model id on a service that holds stores
C19_Witness ==
    /\ EndedWithConfigurationError
    /\ call[1].op = "get_model"
    /\ Truthy(call[1].store_id)
    /\ ret[1].exc = ValueError("model_id must be provided")
    /\ server.stores # <<>>

(***************************************************************************)
(* Claims about the consistency of the process-wide identifiers (checked   *)
(* under SpecCache).                                                       *)
(***************************************************************************)
\* the model mid was created in the store sid: it is one of the models the
\* service holds, or a model of a store that was deleted since
BelongsTo(mid, sid) ==
    \/ \E i \in 1..Len(server.models) :
          server.models[i].id = mid /\ server.models[i].store_id = sid
    \/ \E i \in 1..Len(log) :
          /\ StepOf(log[i].request) = 3
          /\ IsSuccess(log[i].response.status_code)
          /\ log[i].request.endpoint[2] = sid
          /\ log[i].response.data.val.authorization_model_id = mid
    \/ \E srv \in CacheServers : \E i \in 1..Len(srv.models) :
          srv.models[i].id = mid /\ srv.models[i].store_id = sid

\* C18: after any sequence or interleaving of load_store_and_model calls,
\* successful or failing, also after the store was deleted and created
\* again, whenever both process-wide identifiers are set the model id is
\* that of a model of the store the store id names.
C18_CacheConsistent ==
    (Truthy(globals.store_id) /\ Truthy(globals.model_id)) =>
        BelongsTo(globals.model_id[1], globals.store_id[1])

====
